---- MODULE Spec2Model ----
(***************************************************************************)
(* Weekly lineup state machine of the lock-in dashboard: the persisted     *)
(* matchup store (hooks/useMatchupsStorage), the pure matchup helpers      *)
(* (lib/matchupsUtils), and the three components that drive them           *)
(* (Matchups, WeeklyMatchupView, PlayerLockRow).                            *)
(*                                                                         *)
(* Conventions.  An optional value (T | null) is a sequence of length 0 or *)
(* 1.  Fantasy points are fixed-point integers in tenths (30.5 -> 305).    *)
(* Dates are day numbers; the code orders them by Date.getTime().          *)
(* Display-only fields (playerName, seasonYear) are left out.              *)
(***************************************************************************)
EXTENDS Integers, Sequences, FiniteSets, TLC

NULL == <<>>
Some(x) == <<x>>
IsNull(o) == o = <<>>
Val(o) == o[1]

(***************************************************************************)
(* Sequence helpers standing for the Array methods the code uses.          *)
(***************************************************************************)
Filter(s, Keep(_)) == SelectSeq(s, Keep)

Map(s, F(_)) == [i \in 1..Len(s) |-> F(s[i])]

Exists(s, P(_)) == \E i \in 1..Len(s) : P(s[i])

\* Array.prototype.find: first element satisfying P, or null
Find(s, P(_)) ==
  IF Exists(s, P)
  THEN Some(s[CHOOSE i \in 1..Len(s) : P(s[i]) /\ \A j \in 1..(i-1) : ~P(s[j])])
  ELSE NULL

\* reduce((sum, x) => sum + x, 0) over a sequence of numbers
RECURSIVE Sum(_)
Sum(s) == IF s = <<>> THEN 0 ELSE Head(s) + Sum(Tail(s))

\* Array.prototype.sort((a, b) => key(a) - key(b)) is stable.  SortPerm
\* returns the indices of keys in ascending key order, ties in index order.
RECURSIVE InsertIdx(_, _, _)
InsertIdx(i, perm, keys) ==
  IF perm = <<>> THEN <<i>>
  ELSE IF keys[i] < keys[Head(perm)] THEN <<i>> \o perm
       ELSE <<Head(perm)>> \o InsertIdx(i, Tail(perm), keys)

RECURSIVE SortPermUpTo(_, _)
SortPermUpTo(keys, n) ==
  IF n = 0 THEN <<>> ELSE InsertIdx(n, SortPermUpTo(keys, n - 1), keys)

SortPerm(keys) == SortPermUpTo(keys, Len(keys))

SortAscBy(s, Key(_)) ==
  LET perm == SortPerm(Map(s, Key)) IN [i \in 1..Len(s) |-> s[perm[i]]]

SortDescBy(s, Key(_)) ==
  LET perm == SortPerm([i \in 1..Len(s) |-> 0 - Key(s[i])])
  IN [i \in 1..Len(s) |-> s[perm[i]]]

\* { ...a, ...b }
Spread(a, b) ==
  [f \in DOMAIN a \cup DOMAIN b |-> IF f \in DOMAIN b THEN b[f] ELSE a[f]]

(***************************************************************************)
(* Program constants.                                                      *)
(***************************************************************************)
STORAGE_KEY == "sleepr-matchups"
CURRENT_VERSION == 1
STARTERS_COUNT == 10

(***************************************************************************)
(* Slot model (matchupsUtils.ts).  Slots are 0-based in the code; the      *)
(* sequence below is indexed from 1, so slot i of the code is              *)
(* POSITION_SLOTS[i + 1].                                                  *)
(***************************************************************************)
POSITION_SLOTS == <<"PG", "SG", "G", "SF", "PF", "F", "C", "UTIL", "UTIL", "UTIL">>

POSITION_ELIGIBILITY ==
  [PG   |-> {"PG"},
   SG   |-> {"SG"},
   G    |-> {"PG", "SG", "G"},
   SF   |-> {"SF"},
   PF   |-> {"PF"},
   F    |-> {"SF", "PF", "F"},
   C    |-> {"C"},
   UTIL |-> {"PG", "SG", "G", "SF", "PF", "F", "C"}]

canFillSlotMissingCheck(playerPositions, slot) == TRUE

canFillSlot(playerPositions, slot) ==
  \E i \in 1..Len(playerPositions) :
    playerPositions[i] \in POSITION_ELIGIBILITY[slot]

\* String.split('/') on the position strings that occur in the feeds
SplitSlash(str) ==
  CASE str = "PG"     -> <<"PG">>
    [] str = "SF"     -> <<"SF">>
    [] str = "C/PF"   -> <<"C", "PF">>
    [] str = "sg/ sf" -> <<"sg", " sf">>
    [] str = "N/A"    -> <<"N", "A">>
    [] OTHER          -> <<str>>

\* p.trim().toUpperCase()
TrimUpper(tok) ==
  CASE tok = "sg"  -> "SG"
    [] tok = " sf" -> "SF"
    [] OTHER       -> tok

parsePositions(positionStr) ==
  IF positionStr = "" \/ positionStr = "N/A" THEN <<>>
  ELSE Map(SplitSlash(positionStr), TrimUpper)

(***************************************************************************)
(* Pure matchup helpers (matchupsUtils.ts).                                *)
(***************************************************************************)
\* canLockGame: a game that has not been played cannot be locked; a played
\* game can, as the last game of the week or before the next game
canLockGame(game, allGames) ==
  IF ~game.isPlayed
  THEN [canLock |-> FALSE, reason |-> "Game has not occurred yet"]
  ELSE IF Len(Filter(allGames, LAMBDA g : ~g.isPlayed)) = 0
       THEN [canLock |-> TRUE, reason |-> "Last game of week - can lock"]
       ELSE [canLock |-> TRUE, reason |-> "Can lock before next game"]

\* reduce((best, g) => g.fpts > best.fpts ? g : best): first maximum
RECURSIVE BestOf(_, _)
BestOf(best, rest) ==
  IF rest = <<>> THEN best
  ELSE BestOf(IF Head(rest).fpts > best.fpts THEN Head(rest) ELSE best, Tail(rest))

\* playedGames.length === 0 ? null : playedGames.reduce(...), playedGames
\* being games.filter(g => g.isPlayed && g.fpts > 0)
getOptimalGame(games) ==
  IF Len(Filter(games, LAMBDA g : g.isPlayed /\ g.fpts > 0)) = 0 THEN NULL
  ELSE Some(BestOf(Head(Filter(games, LAMBDA g : g.isPlayed /\ g.fpts > 0)),
                   Tail(Filter(games, LAMBDA g : g.isPlayed /\ g.fpts > 0))))

\* optimal ? { date: optimal.date, fpts: optimal.fpts } : null
OptimalRef(optimal) ==
  IF IsNull(optimal) THEN NULL
  ELSE Some([date |-> Val(optimal).date, fpts |-> Val(optimal).fpts])

\* percentDiff = (difference / optimalFpts) * 100 compared with a bound b,
\* stated without division: optimalFpts > 0 wherever the code evaluates it
calculateLockQuality(lockedFpts, optimalFpts) ==
  IF lockedFpts >= optimalFpts THEN "optimal"
  ELSE LET difference == optimalFpts - lockedFpts
       IN IF difference * 100 <= 5 * optimalFpts THEN "good"
          ELSE IF difference * 100 <= 15 * optimalFpts THEN "suboptimal"
          ELSE "poor"

\* the band computation written out inside recordLock and updatePlayerGames
InlineLockQuality(lockedFpts, optimalFpts) ==
  LET diff == optimalFpts - lockedFpts
  IN IF diff = 0 THEN "optimal"
     ELSE IF diff * 100 <= 5 * optimalFpts THEN "good"
     ELSE IF diff * 100 <= 15 * optimalFpts THEN "suboptimal"
     ELSE "poor"

\* the games array of buildPlayerWeekLockIn: the played games, then the
\* scheduled games of dates not played, sorted by date
MergedGames(playedGames, remainingScheduled) ==
  SortAscBy(
    Map(playedGames, LAMBDA g :
      [date |-> g.date, fpts |-> g.fpts, opponent |-> g.matchup,
       isPlayed |-> TRUE, isLocked |-> FALSE])
    \o Map(Filter(remainingScheduled, LAMBDA g :
                    \A i \in 1..Len(playedGames) : playedGames[i].date # g.date),
           LAMBDA g :
             [date |-> g.date, fpts |-> 0,
              opponent |-> IF g.home THEN "vs" ELSE "@",
              isPlayed |-> FALSE, isLocked |-> FALSE]),
    LAMBDA g : g.date)

\* the record buildPlayerWeekLockIn returns for the games array
LockInOf(player, week, games) ==
  [sleeperId |-> player.sleeper_id,
   nbaTeam |-> player.nba_team,
   position |-> player.position,
   week |-> week,
   games |-> games,
   lockedGame |-> NULL,
   optimalGame |-> OptimalRef(getOptimalGame(games)),
   lockQuality |-> NULL]

\* playedGames is weekStats?.gamesList || [], remainingScheduled is
\* nbaSchedule?.remainingThisWeek[player.nba_team] || []
buildPlayerWeekLockIn(player, week, nbaSchedule) ==
  LockInOf(player, week,
           MergedGames(IF IsNull(Find(player.weeklyStats, LAMBDA w : w.week = week))
                       THEN <<>>
                       ELSE Val(Find(player.weeklyStats,
                                     LAMBDA w : w.week = week)).gamesList,
                       IF IsNull(nbaSchedule) THEN <<>>
                       ELSE IF player.nba_team
                                 \in DOMAIN Val(nbaSchedule).remainingThisWeek
                            THEN Val(nbaSchedule).remainingThisWeek[player.nba_team]
                            ELSE <<>>))

\* the sums of p.optimalGame?.fpts || 0 and of p.lockedGame?.gameFpts || 0
SumOptimal(players) ==
  Sum(Map(players, LAMBDA p : IF IsNull(p.optimalGame) THEN 0
                              ELSE Val(p.optimalGame).fpts))

SumLockedOfStarters(players) ==
  Sum(Map(SubSeq(players, 1, IF Len(players) < 10 THEN Len(players) ELSE 10),
          LAMBDA p : IF IsNull(p.lockedGame) THEN 0 ELSE Val(p.lockedGame).gameFpts))

SumLocked(players) ==
  Sum(Map(players, LAMBDA p : IF IsNull(p.lockedGame) THEN 0
                              ELSE Val(p.lockedGame).gameFpts))

orderPlayers(teamPlayers, starterIds, week, nbaSchedule) ==
  IF Len(starterIds) > 0
  THEN LET found == Filter(starterIds, LAMBDA id :
                      Exists(teamPlayers, LAMBDA p : p.sleeper_id = id))
           starters == Map(found, LAMBDA id :
                         buildPlayerWeekLockIn(
                           Val(Find(teamPlayers, LAMBDA p : p.sleeper_id = id)),
                           week, nbaSchedule))
           starterSet == {starterIds[i] : i \in 1..Len(starterIds)}
           bench == Map(SortDescBy(Filter(teamPlayers,
                                          LAMBDA p : p.sleeper_id \notin starterSet),
                                   LAMBDA p : p.expectedLockin),
                        LAMBDA p : buildPlayerWeekLockIn(p, week, nbaSchedule))
       IN starters \o bench
  ELSE Map(SortDescBy(teamPlayers, LAMBDA p : p.expectedLockin),
           LAMBDA p : buildPlayerWeekLockIn(p, week, nbaSchedule))

\* the record buildWeekMatchup returns for the two ordered lists; the names
\* are teamName || ownerName, the optimal totals sum slice(0, 10)
WeekMatchupOf(week, myTeam, opponentTeam, myPlayers, opponentPlayers) ==
  [week |-> week,
   myTeamRosterId |-> myTeam.rosterId,
   opponentRosterId |-> opponentTeam.rosterId,
   myTeamName |-> IF myTeam.teamName = "" THEN myTeam.ownerName
                  ELSE myTeam.teamName,
   opponentTeamName |-> IF opponentTeam.teamName = "" THEN opponentTeam.ownerName
                        ELSE opponentTeam.teamName,
   myPlayers |-> myPlayers,
   opponentPlayers |-> opponentPlayers,
   myTotalLocked |-> 0,
   opponentTotalLocked |-> 0,
   myOptimalTotal |-> SumOptimal(SubSeq(myPlayers, 1, IF Len(myPlayers) < 10 THEN Len(myPlayers) ELSE 10)),
   opponentOptimalTotal |-> SumOptimal(SubSeq(opponentPlayers, 1,
                                          IF Len(opponentPlayers) < 10
                                          THEN Len(opponentPlayers) ELSE 10)),
   result |-> "pending"]

buildWeekMatchup(week, myTeam, opponentTeam, players, nbaSchedule, myStarterIds, opponentStarterIds) ==
  WeekMatchupOf(week, myTeam, opponentTeam,
    orderPlayers(Filter(players, LAMBDA p : p.fantasy_team = myTeam.ownerName),
                 myStarterIds, week, nbaSchedule),
    orderPlayers(Filter(players, LAMBDA p : p.fantasy_team = opponentTeam.ownerName),
                 opponentStarterIds, week, nbaSchedule))

PreserveLockWithStandIn(lockInPlayer, fresh) ==
  IF IsNull(lockInPlayer.lockedGame) THEN fresh
  ELSE [fresh EXCEPT
          !.games = Map(fresh.games, LAMBDA g :
                      [g EXCEPT !.isLocked =
                         (g.date = Val(lockInPlayer.lockedGame).gameDate)])
                    \o (IF \E i \in 1..Len(fresh.games) :
                             fresh.games[i].date = Val(lockInPlayer.lockedGame).gameDate
                        THEN <<>>
                        ELSE << [date |-> Val(lockInPlayer.lockedGame).gameDate,
                                 fpts |-> Val(lockInPlayer.lockedGame).gameFpts,
                                 opponent |-> "vs", isPlayed |-> TRUE,
                                 isLocked |-> TRUE] >>),
          !.lockedGame = lockInPlayer.lockedGame,
          !.lockQuality =
            IF ~IsNull(fresh.optimalGame)
            THEN Some(calculateLockQuality(Val(lockInPlayer.lockedGame).gameFpts,
                                           Val(fresh.optimalGame).fpts))
            ELSE fresh.lockQuality]

\* syncPlayers' "preserve existing lock" block on the rebuilt record fresh
PreserveLock(lockInPlayer, fresh) ==
  IF IsNull(lockInPlayer.lockedGame) THEN fresh
  ELSE [fresh EXCEPT
          !.games = Map(fresh.games, LAMBDA g :
                      [g EXCEPT !.isLocked =
                         (g.date = Val(lockInPlayer.lockedGame).gameDate)]),
          !.lockedGame = lockInPlayer.lockedGame,
          !.lockQuality =
            IF ~IsNull(fresh.optimalGame)
            THEN Some(calculateLockQuality(Val(lockInPlayer.lockedGame).gameFpts,
                                           Val(fresh.optimalGame).fpts))
            ELSE fresh.lockQuality]

\* syncPlayers' map callback once playerData has been looked up
SyncFound(lockInPlayer, playerData, week, nbaSchedule) ==
  IF IsNull(playerData) THEN lockInPlayer
  ELSE PreserveLock(lockInPlayer,
                    buildPlayerWeekLockIn(Val(playerData), week, nbaSchedule))

syncPlayerDropLock(lockInPlayer, fantasyTeam, week, players, nbaSchedule) ==
  LET playerData == Find(players, LAMBDA p :
                      p.sleeper_id = lockInPlayer.sleeperId /\ p.fantasy_team = fantasyTeam)
  IN IF IsNull(playerData) THEN lockInPlayer
     ELSE buildPlayerWeekLockIn(Val(playerData), week, nbaSchedule)

\* the body of syncPlayers' map callback
syncPlayer(lockInPlayer, fantasyTeam, week, players, nbaSchedule) ==
  SyncFound(lockInPlayer,
            Find(players, LAMBDA p :
              p.sleeper_id = lockInPlayer.sleeperId /\ p.fantasy_team = fantasyTeam),
            week, nbaSchedule)

\* the record syncMatchupWithPlayerData returns for the synced lists
WithSyncedPlayers(matchup, myPlayers, opponentPlayers) ==
  [matchup EXCEPT
     !.myPlayers = myPlayers,
     !.opponentPlayers = opponentPlayers,
     !.myOptimalTotal = SumOptimal(myPlayers),
     !.opponentOptimalTotal = SumOptimal(opponentPlayers)]

syncMatchupAccumulatingTotals(matchup, players, nbaSchedule) ==
  LET myPlayers == Map(matchup.myPlayers, LAMBDA p :
                     syncPlayer(p, matchup.myTeamName, matchup.week, players, nbaSchedule))
      opponentPlayers == Map(matchup.opponentPlayers, LAMBDA p :
                     syncPlayer(p, matchup.opponentTeamName, matchup.week, players, nbaSchedule))
  IN [matchup EXCEPT
        !.myPlayers = myPlayers,
        !.opponentPlayers = opponentPlayers,
        !.myOptimalTotal = matchup.myOptimalTotal + SumOptimal(myPlayers),
        !.opponentOptimalTotal = matchup.opponentOptimalTotal + SumOptimal(opponentPlayers)]

syncMatchupWithPlayerData(matchup, players, nbaSchedule) ==
  WithSyncedPlayers(matchup,
    Map(matchup.myPlayers, LAMBDA p :
      syncPlayer(p, matchup.myTeamName, matchup.week, players, nbaSchedule)),
    Map(matchup.opponentPlayers, LAMBDA p :
      syncPlayer(p, matchup.opponentTeamName, matchup.week, players, nbaSchedule)))

\* the result of findOpponentForWeek for my entry and the opponent's entry
\* findOpponentForWeek once the matchup group has been looked up: the
\* opponent is the group's other roster
MatchupInfoOfGroup(group, myRosterId) ==
  IF IsNull(group) THEN NULL
  ELSE Some([opponentRosterId |->
               Val(Find(Val(group), LAMBDA t : t.roster_id # myRosterId)).roster_id,
             myStarters |->
               Filter(Val(Find(Val(group), LAMBDA t : t.roster_id = myRosterId)).starters,
                      LAMBDA id : id # "0"),
             opponentStarters |->
               Filter(Val(Find(Val(group), LAMBDA t : t.roster_id # myRosterId)).starters,
                      LAMBDA id : id # "0")])

\* dataLoader.ts: the first matchup group of the week that holds my roster
\* and some other roster ('0' marks an empty starter slot)
findOpponentForWeek(matchups, myRosterId, week) ==
  IF IsNull(matchups) THEN NULL
  ELSE IF week \notin DOMAIN Val(matchups) THEN NULL
  ELSE MatchupInfoOfGroup(
         Find(Val(matchups)[week], LAMBDA mt :
           Exists(mt, LAMBDA t : t.roster_id = myRosterId)
           /\ Exists(mt, LAMBDA t : t.roster_id # myRosterId)),
         myRosterId)

(***************************************************************************)
(* The store (hooks/useMatchupsStorage).  Each operator below is the       *)
(* updater a transition hands to setStorage: a function of the previous    *)
(* document prev.  isMyTeam selects the side.                              *)
(***************************************************************************)
getDefaultStorage ==
  [version |-> CURRENT_VERSION,
   config |-> [myTeamRosterId |-> NULL],
   history |-> <<>>,
   lastUpdated |-> "created"]

PlayersKey(isMyTeam) == IF isMyTeam THEN "myPlayers" ELSE "opponentPlayers"

setMyTeam(prev, rosterId) ==
  [prev EXCEPT !.config = [prev.config EXCEPT !.myTeamRosterId = Some(rosterId)]]

\* storage.history.find(m => m.week === week)
getMatchup(storageDoc, week) == Find(storageDoc.history, LAMBDA m : m.week = week)

initializeWeekDroppingOthers(prev, matchup) ==
  [prev EXCEPT !.history = << matchup >>]

initializeWeek(prev, matchup) ==
  IF Exists(prev.history, LAMBDA m : m.week = matchup.week)
  THEN [prev EXCEPT !.history =
          Map(prev.history, LAMBDA m :
            IF m.week = matchup.week THEN Spread(m, matchup) ELSE m)]
  ELSE [prev EXCEPT !.history =
          SortDescBy(Append(prev.history, matchup), LAMBDA m : m.week)]

updateMatchup(prev, week, updates) ==
  [prev EXCEPT !.history =
     Map(prev.history, LAMBDA m : IF m.week = week THEN Spread(m, updates) ELSE m)]

\* recordLock flagging every played game instead of the game of the date
LockPlayerFlagAllPlayed(p, decision) ==
  [p EXCEPT
     !.games = Map(p.games, LAMBDA g : [g EXCEPT !.isLocked = g.isPlayed]),
     !.lockedGame = Some(decision),
     !.lockQuality = Some("optimal")]

\* the per-player branch of recordLock
LockPlayer(p, decision) ==
  LET updatedGames == Map(p.games, LAMBDA g :
                        [g EXCEPT !.isLocked = (g.date = decision.gameDate)])
      optimalGame == getOptimalGame(updatedGames)
  IN [p EXCEPT
        !.games = updatedGames,
        !.lockedGame = Some(decision),
        !.optimalGame = OptimalRef(optimalGame),
        !.lockQuality =
          IF IsNull(optimalGame) THEN NULL
          ELSE Some(InlineLockQuality(decision.gameFpts, Val(optimalGame).fpts))]

recordLock(prev, week, sleeperId, isMyTeam, decision) ==
  [prev EXCEPT !.history =
     Map(prev.history, LAMBDA m :
       IF m.week # week THEN m
       ELSE LET players == Map(m[PlayersKey(isMyTeam)], LAMBDA p :
                             IF p.sleeperId # sleeperId THEN p
                             ELSE LockPlayer(p, decision))
                updatedMatchup == [m EXCEPT ![PlayersKey(isMyTeam)] = players]
            IN [updatedMatchup EXCEPT
                  !.myTotalLocked = SumLocked(updatedMatchup.myPlayers),
                  !.opponentTotalLocked = SumLocked(updatedMatchup.opponentPlayers),
                  !.myOptimalTotal = SumOptimal(updatedMatchup.myPlayers),
                  !.opponentOptimalTotal = SumOptimal(updatedMatchup.opponentPlayers)])]

\* the per-player branch of clearLock
UnlockPlayerKeepQuality(p) ==
  [p EXCEPT
     !.games = Map(p.games, LAMBDA g : [g EXCEPT !.isLocked = FALSE]),
     !.lockedGame = NULL]

UnlockPlayer(p) ==
  [p EXCEPT
     !.games = Map(p.games, LAMBDA g : [g EXCEPT !.isLocked = FALSE]),
     !.lockedGame = NULL,
     !.lockQuality = NULL]

clearLock(prev, week, sleeperId, isMyTeam) ==
  [prev EXCEPT !.history =
     Map(prev.history, LAMBDA m :
       IF m.week # week THEN m
       ELSE LET players == Map(m[PlayersKey(isMyTeam)], LAMBDA p :
                             IF p.sleeperId # sleeperId THEN p ELSE UnlockPlayer(p))
                updatedMatchup == [m EXCEPT ![PlayersKey(isMyTeam)] = players]
            IN [updatedMatchup EXCEPT
                  !.myTotalLocked = SumLocked(updatedMatchup.myPlayers),
                  !.opponentTotalLocked = SumLocked(updatedMatchup.opponentPlayers)])]

\* the per-player branch of updatePlayerGames
UpdateGamesOf(p, games) ==
  LET updatedGames ==
        Map(games, LAMBDA g :
          [g EXCEPT !.isLocked =
             (~IsNull(p.lockedGame) /\ g.date = Val(p.lockedGame).gameDate)])
      optimalGame == getOptimalGame(updatedGames)
  IN [p EXCEPT
        !.games = updatedGames,
        !.optimalGame = OptimalRef(optimalGame),
        !.lockQuality =
          IF ~IsNull(p.lockedGame) /\ ~IsNull(optimalGame)
          THEN Some(InlineLockQuality(Val(p.lockedGame).gameFpts, Val(optimalGame).fpts))
          ELSE p.lockQuality]

updatePlayerGames(prev, week, sleeperId, isMyTeam, games) ==
  [prev EXCEPT !.history =
     Map(prev.history, LAMBDA m :
       IF m.week # week THEN m
       ELSE LET players == Map(m[PlayersKey(isMyTeam)], LAMBDA p :
                             IF p.sleeperId # sleeperId THEN p ELSE UpdateGamesOf(p, games))
                updatedMatchup == [m EXCEPT ![PlayersKey(isMyTeam)] = players]
            IN [updatedMatchup EXCEPT
                  !.myOptimalTotal = SumOptimal(updatedMatchup.myPlayers),
                  !.opponentOptimalTotal = SumOptimal(updatedMatchup.opponentPlayers)])]

clearWeekMatchup(prev, week) ==
  [prev EXCEPT !.history = Filter(prev.history, LAMBDA m : m.week # week)]

\* indices are the code's 0-based indices; the model's sequences start at 1
SwapEntriesWithoutTemp(players, starterIndex, actualBenchIndex) ==
  [k \in 1..Len(players) |->
     IF k = starterIndex + 1 THEN players[actualBenchIndex + 1] ELSE players[k]]

SwapEntries(players, starterIndex, actualBenchIndex) ==
  [k \in 1..Len(players) |->
     IF k = starterIndex + 1 THEN players[actualBenchIndex + 1]
     ELSE IF k = actualBenchIndex + 1 THEN players[starterIndex + 1]
     ELSE players[k]]

swapPlayersNoBenchLowerBound(prev, week, starterIndex, benchIndex, isMyTeam) ==
  [prev EXCEPT !.history =
     Map(prev.history, LAMBDA m :
       IF m.week # week THEN m
       ELSE LET players == m[PlayersKey(isMyTeam)]
                actualBenchIndex == STARTERS_COUNT + benchIndex
            IN IF starterIndex < 0 \/ starterIndex >= STARTERS_COUNT THEN m
               ELSE IF actualBenchIndex < 0 \/ actualBenchIndex >= Len(players) THEN m
               ELSE [m EXCEPT ![PlayersKey(isMyTeam)] =
                       SwapEntries(players, starterIndex, actualBenchIndex)])]

swapPlayers(prev, week, starterIndex, benchIndex, isMyTeam) ==
  [prev EXCEPT !.history =
     Map(prev.history, LAMBDA m :
       IF m.week # week THEN m
       ELSE LET players == m[PlayersKey(isMyTeam)]
                actualBenchIndex == STARTERS_COUNT + benchIndex
            IN IF starterIndex < 0 \/ starterIndex >= STARTERS_COUNT THEN m
               ELSE IF actualBenchIndex < STARTERS_COUNT
                       \/ actualBenchIndex >= Len(players) THEN m
               ELSE [m EXCEPT ![PlayersKey(isMyTeam)] =
                       SwapEntries(players, starterIndex, actualBenchIndex)])]

SavedImageWithoutHistory(storageDoc) ==
  [storageDoc EXCEPT !.lastUpdated = "saved", !.history = <<>>]

\* saveStorage: { ...storage, lastUpdated: new Date().toISOString() }
\* serialised under STORAGE_KEY; the stamp tells a written image from the
\* document it was taken from
SavedImage(storageDoc) == [storageDoc EXCEPT !.lastUpdated = "saved"]

(***************************************************************************)
(* Persistence (loadStorage, migrateStorage, saveStorage).  A stored item  *)
(* is NULL when the key is absent, else Some(text); a text is the empty    *)
(* string (kind "empty"), text that is not JSON (kind "invalid"), or the   *)
(* JSON text of a value.  JSON values carry their type ("null", "boolean", *)
(* "number", "string", "array", "object"), so that typeof and the falsy    *)
(* test can be evaluated as the code evaluates them.  A call ends by       *)
(* returning a value, by throwing (kind "threw"), or, for a try block, by  *)
(* falling through (kind "fellThrough").                                   *)
(***************************************************************************)
Json(type, value) == [type |-> type, value |-> value]

Returned(v) == [kind |-> "returned", value |-> v]

\* storage.x, with NULL for undefined
Prop(storage, k) == IF k \in DOMAIN storage THEN Some(storage[k]) ELSE NULL

MigrateObjectAlwaysMerging(storage) ==
  Spread(Spread(getDefaultStorage, storage), [version |-> CURRENT_VERSION])

\* migrateStorage past its first guard
MigrateObject(storage) ==
  IF Prop(storage, "version") = Some(CURRENT_VERSION) THEN storage
  ELSE Spread(Spread(getDefaultStorage, storage), [version |-> CURRENT_VERSION])

\* migrateStorage: the guard is !data || typeof data !== 'object'; what
\* `storage.x` reads and `...storage` copies are the own enumerable
\* properties, which for an array are its indices
migrateStorage(data) ==
  IF \/ data.type = "null"
     \/ data.type = "boolean" /\ ~data.value
     \/ data.type = "number" /\ data.value = 0
     \/ data.type = "string" /\ data.value = ""
     \/ data.type \notin {"null", "array", "object"}
  THEN getDefaultStorage
  ELSE MigrateObject(
         IF data.type = "object" THEN data.value
         ELSE [k \in {ToString(i - 1) : i \in 1..Len(data.value)} |->
                 data.value[CHOOSE i \in 1..Len(data.value) : ToString(i - 1) = k]])

\* JSON.parse
JSONparse(text) ==
  IF text.kind = "json" THEN Returned(text.value) ELSE [kind |-> "threw"]

\* the try block of loadStorage
LoadAttempt(item, getItemThrows) ==
  IF getItemThrows THEN [kind |-> "threw"]
  ELSE IF IsNull(item) \/ Val(item).kind = "empty" THEN [kind |-> "fellThrough"]
  ELSE IF JSONparse(Val(item)).kind = "threw" THEN [kind |-> "threw"]
  ELSE Returned(migrateStorage(JSONparse(Val(item)).value))

\* loadStorage: the catch logs and falls to the final return
loadStorage(item, getItemThrows) ==
  IF LoadAttempt(item, getItemThrows).kind = "returned"
  THEN LoadAttempt(item, getItemThrows)
  ELSE Returned(getDefaultStorage)

\* saveStorage: returns the item under STORAGE_KEY after the call; the
\* catch logs, and the item stays as it was
saveStorage(storageDoc, item, setItemThrows) ==
  IF setItemThrows THEN Returned(item)
  ELSE Returned(Some([kind |-> "json",
                      value |-> Json("object", SavedImage(storageDoc))]))

(***************************************************************************)
(* Feeds.  The components receive teams, players, nbaSchedule and          *)
(* sleeperMatchups as props.  Feed "none" is the state before the feeds    *)
(* have loaded; "d1" and "d2" are two successive refreshes of one league:  *)
(* team 1 (owner "ann", no team name) has ten starters and two bench       *)
(* players, team 2 (owner "bob", team name "Bobcats") has two players.     *)
(* Between d1 and d2 the score of p2's day-1 game is corrected, p2 plays   *)
(* the game scheduled for day 3, and p10's day-2 game is withdrawn.        *)
(***************************************************************************)
Feeds == {"none", "d1", "d2"}
FeedAge(f) == CHOOSE i \in 1..3 : <<"none", "d1", "d2">>[i] = f

Teams ==
  << [rosterId |-> 1, ownerName |-> "ann", teamName |-> ""],
     [rosterId |-> 2, ownerName |-> "bob", teamName |-> "Bobcats"] >>

AnnIds == <<"p0", "p1", "p2", "p3", "p4", "p5", "p6", "p7", "p8", "p9", "p10", "p11">>
BobIds == <<"q0", "q1">>
AllIds == {AnnIds[i] : i \in 1..Len(AnnIds)} \cup {BobIds[i] : i \in 1..Len(BobIds)}

ExpectedLockinOf(id) ==
  CASE id = "p2"  -> 500
    [] id = "p10" -> 300
    [] id = "p11" -> 350
    [] id = "q0"  -> 450
    [] OTHER      -> 100

Game(date, fpts) == [date |-> date, fpts |-> fpts, matchup |-> "vs"]

\* a player of a feed; weeklyStats has no entry for a week without a game
PlayerOf(feed, id, owner) ==
  [sleeper_id |-> id,
   nba_team |-> CASE id = "p2"  -> "AAA"
                  [] id = "p10" -> "BBB"
                  [] id = "q0"  -> "CCC"
                  [] OTHER      -> "DDD",
   fantasy_team |-> owner,
   position |-> CASE id = "p2"  -> "PG"
                  [] id = "p10" -> "PG"
                  [] id = "q0"  -> "C/PF"
                  [] id = "q1"  -> "sg/ sf"
                  [] OTHER      -> "N/A",
   expectedLockin |-> ExpectedLockinOf(id),
   weeklyStats |->
     CASE feed = "d1" /\ id = "p2"  ->
            << [week |-> 1, gamesList |-> << Game(1, 300) >>] >>
       [] feed = "d1" /\ id = "p10" ->
            << [week |-> 1, gamesList |-> << Game(2, 250) >>] >>
       [] feed = "d2" /\ id = "p2"  ->
            << [week |-> 1, gamesList |-> << Game(1, 320), Game(3, 310) >>] >>
       [] OTHER -> <<>>]

FeedTeams(feed) == IF feed = "none" THEN <<>> ELSE Teams

FeedPlayers(feed) ==
  IF feed = "none" THEN <<>>
  ELSE [i \in 1..Len(AnnIds) |-> PlayerOf(feed, AnnIds[i], "ann")]
       \o [i \in 1..Len(BobIds) |-> PlayerOf(feed, BobIds[i], "bob")]

Sched(date, home) == [date |-> date, opponent |-> "X", home |-> home]

FeedSchedule(feed) ==
  CASE feed = "d1" ->
         Some([currentWeek |-> 2,
               remainingThisWeek |-> [t \in {"AAA"} |-> << Sched(3, TRUE), Sched(1, FALSE) >>]])
    [] feed = "d2" ->
         Some([currentWeek |-> 2,
               remainingThisWeek |-> [t \in {"BBB"} |-> << Sched(4, FALSE) >>]])
    [] OTHER -> NULL

FeedMatchups(feed) ==
  IF feed = "none" THEN NULL
  ELSE Some([w \in {1} |->
         << << [roster_id |-> 1, starters |-> SubSeq(AnnIds, 1, 10)],
               [roster_id |-> 2, starters |-> <<"q0", "0", "q1">>] >> >>])

\* nbaSchedule?.currentWeek || 1
CurrentWeek(feed) ==
  IF IsNull(FeedSchedule(feed)) THEN 1 ELSE Val(FeedSchedule(feed)).currentWeek

(***************************************************************************)
(* State.                                                                  *)
(*                                                                         *)
(* React keeps the useState value of the store as a committed value plus a *)
(* queue of updaters.  view is the document of the last committed render:  *)
(* every handler and effect closes over it.  base and queue are the        *)
(* updater queue: queue applies to base, in order.  An updater issued by a *)
(* click handler has lane "sync" and is rendered before the handler's      *)
(* event ends; an updater issued from a passive effect has lane "default"  *)
(* and is rendered later, by a render the scheduler runs.  Passive effects *)
(* of a sync render are flushed at the end of its commit, those of a       *)
(* default render are flushed later, and in any case before the next       *)
(* render starts.  What a sync render does with default updaters that are  *)
(* still queued depends on the React release the build links: with unified *)
(* sync lanes (React 19) it applies them with the sync ones, in queue      *)
(* order; without (React 18) it skips them and keeps every updater after a *)
(* skipped one for the later render (lane "none").  unifiedSyncLane is     *)
(* that property of the build.                                             *)
(***************************************************************************)
VARIABLES
  view,          \* MatchupsStorage of the last committed render
  base,          \* MatchupsStorage the queued updaters apply to
  queue,         \* pending setStorage updaters
  persisted,     \* localStorage[STORAGE_KEY]: NULL or the saved image
  saveDue,       \* the auto-save effect of the last commit has not run yet
  effectDue,     \* the initialize-or-sync effect of the last commit has not run yet
  feed,          \* the feed the props were computed from
  selectedWeek,  \* Matchups: selectedWeek
  swapMode,      \* WeeklyMatchupView: swapMode (the starter index) or null
  selectedGame,  \* PlayerLockRow: selectedGame of the row showing each player
  lastOp,        \* the transition that produced the state
  unifiedSyncLane \* the build's React renders default updaters in a sync render

vars == <<view, base, queue, persisted, saveDue, effectDue, feed,
          selectedWeek, swapMode, selectedGame, lastOp, unifiedSyncLane>>

Upd(lane, kind, arg) == [lane |-> lane, kind |-> kind, arg |-> arg]

\* the updater a queued entry stands for, applied to prev
Apply(u, prev) ==
  CASE u.kind = "setMyTeam"      -> setMyTeam(prev, u.arg.rosterId)
    [] u.kind = "initializeWeek" -> initializeWeek(prev, u.arg.matchup)
    [] u.kind = "recordLock"     ->
         recordLock(prev, u.arg.week, u.arg.sleeperId, u.arg.isMyTeam, u.arg.decision)
    [] u.kind = "clearLock"      ->
         clearLock(prev, u.arg.week, u.arg.sleeperId, u.arg.isMyTeam)
    [] u.kind = "swapPlayers"    ->
         swapPlayers(prev, u.arg.week, u.arg.starterIndex, u.arg.benchIndex, u.arg.isMyTeam)
    [] u.kind = "clearWeekMatchup" -> clearWeekMatchup(prev, u.arg.week)
    [] u.kind = "resetStorage"   -> getDefaultStorage

\* one render pass over the updater queue
RECURSIVE Process(_, _, _, _, _, _)
Process(q, syncRender, state, newBase, newQueue, skipped) ==
  IF q = <<>>
  THEN [doc |-> state, base |-> IF skipped THEN newBase ELSE state, queue |-> newQueue]
  ELSE LET u == Head(q)
       IN IF syncRender /\ u.lane = "default"
          THEN Process(Tail(q), syncRender, state,
                       IF skipped THEN newBase ELSE state, Append(newQueue, u), TRUE)
          ELSE Process(Tail(q), syncRender, Apply(u, state), newBase,
                       IF skipped THEN Append(newQueue, [u EXCEPT !.lane = "none"])
                       ELSE newQueue,
                       skipped)

RenderPass(b, q, syncRender) == Process(q, syncRender, b, b, <<>>, FALSE)

\* the in-memory document: every queued updater applied
storage == RenderPass(base, queue, FALSE).doc

(***************************************************************************)
(* Matchups: the memoised props of a render and the initialize-or-sync     *)
(* effect.  EffectUpdates is the list of updaters the effect enqueues when *)
(* it runs with the closure (doc, week, f).                                *)
(***************************************************************************)
MyTeamOf(doc, f) ==
  IF IsNull(doc.config.myTeamRosterId) THEN NULL
  ELSE Find(FeedTeams(f), LAMBDA t : t.rosterId = Val(doc.config.myTeamRosterId))

MatchupInfoOf(doc, week, f) ==
  IF IsNull(doc.config.myTeamRosterId) THEN NULL
  ELSE findOpponentForWeek(FeedMatchups(f), Val(doc.config.myTeamRosterId), week)

OpponentTeamOf(doc, week, f) ==
  IF IsNull(MatchupInfoOf(doc, week, f)) THEN NULL
  ELSE Find(FeedTeams(f),
            LAMBDA t : t.rosterId = Val(MatchupInfoOf(doc, week, f)).opponentRosterId)

\* the effect without the comparison: the synced record is always stored
EffectUpdatesAlwaysWrite(doc, week, f) ==
  IF IsNull(MyTeamOf(doc, f)) \/ IsNull(OpponentTeamOf(doc, week, f)) THEN <<>>
  ELSE IF IsNull(getMatchup(doc, week))
       THEN << Upd("default", "initializeWeek",
                   [matchup |-> buildWeekMatchup(week, Val(MyTeamOf(doc, f)),
                                  Val(OpponentTeamOf(doc, week, f)), FeedPlayers(f),
                                  FeedSchedule(f),
                                  Val(MatchupInfoOf(doc, week, f)).myStarters,
                                  Val(MatchupInfoOf(doc, week, f)).opponentStarters)]) >>
       ELSE << Upd("default", "initializeWeek",
                   [matchup |-> syncMatchupWithPlayerData(Val(getMatchup(doc, week)),
                                  FeedPlayers(f), FeedSchedule(f))]) >>

EffectUpdates(doc, week, f) ==
  IF IsNull(MyTeamOf(doc, f)) \/ IsNull(OpponentTeamOf(doc, week, f)) THEN <<>>
  ELSE LET existingMatchup == getMatchup(doc, week)
           info == Val(MatchupInfoOf(doc, week, f))
       IN IF IsNull(existingMatchup)
          THEN << Upd("default", "initializeWeek",
                      [matchup |-> buildWeekMatchup(week, Val(MyTeamOf(doc, f)),
                                     Val(OpponentTeamOf(doc, week, f)), FeedPlayers(f),
                                     FeedSchedule(f), info.myStarters,
                                     info.opponentStarters)]) >>
          ELSE LET synced == syncMatchupWithPlayerData(Val(existingMatchup),
                                                       FeedPlayers(f), FeedSchedule(f))
               IN IF synced # Val(existingMatchup)
                  THEN << Upd("default", "initializeWeek", [matchup |-> synced]) >>
                  ELSE <<>>

(***************************************************************************)
(* What a render shows.  A component keeps its state while it stays at the *)
(* same place of the tree under the same key: WeeklyMatchupView as long as *)
(* a matchup is shown, a starter row under (slot, index, sleeperId), a     *)
(* bench row under sleeperId.                                              *)
(***************************************************************************)
\* currentMatchup, behind the early return for a missing team selection
CurrentMatchup(doc, week) ==
  IF IsNull(doc.config.myTeamRosterId) THEN NULL ELSE getMatchup(doc, week)

IndexOf(players, id) ==
  IF \E k \in 1..Len(players) : players[k].sleeperId = id
  THEN CHOOSE k \in 1..Len(players) : players[k].sleeperId = id
  ELSE 0

RowKey(doc, week, id) ==
  IF IsNull(CurrentMatchup(doc, week)) THEN NULL
  ELSE LET m == Val(CurrentMatchup(doc, week))
           k == IndexOf(m.myPlayers, id)
           j == IndexOf(m.opponentPlayers, id)
       IN IF k > 0 THEN (IF k <= STARTERS_COUNT THEN <<"my", k>> ELSE <<"myBench">>)
          ELSE IF j > 0 THEN (IF j <= STARTERS_COUNT THEN <<"opp", j>> ELSE <<"oppBench">>)
          ELSE NULL

KeptSwapMode(oldDoc, oldWeek, newDoc, newWeek, mode) ==
  IF IsNull(CurrentMatchup(oldDoc, oldWeek)) \/ IsNull(CurrentMatchup(newDoc, newWeek))
  THEN NULL ELSE mode

KeptSelection(oldDoc, oldWeek, newDoc, newWeek, sel) ==
  [id \in AllIds |->
     IF RowKey(newDoc, newWeek, id) # NULL
        /\ RowKey(oldDoc, oldWeek, id) = RowKey(newDoc, newWeek, id)
     THEN sel[id] ELSE NULL]

\* the argument is filed under the operation's name, so that records of
\* different operations differ without their arguments being compared
Op(name, arg) == [op |-> name, arg |-> [f \in {name} |-> arg]]

(***************************************************************************)
(* A click.  The handler has run with the closures of the last commit and  *)
(* issued the updaters `updates`, leaving the component states week1,      *)
(* mode1 and sel1.  Before the event ends React flushes the passive        *)
(* effects still pending from the previous commit (with that commit's      *)
(* closures), renders at sync priority, commits, and flushes the passive   *)
(* effects of the new commit: the auto-save when the store value changed,  *)
(* the initialize-or-sync effect when one of its dependencies changed.     *)
(***************************************************************************)
\* The scheduled render follows a commit within milliseconds: at most
\* MaxPending updaters are still waiting for it when a click arrives.
MaxPending == 1

Click(updates, week1, mode1, sel1, op) ==
  /\ Len(queue) <= MaxPending
  /\ \E q2 \in {IF effectDue
                THEN queue \o updates \o EffectUpdates(view, selectedWeek, feed)
                ELSE queue \o updates} :
     \E r \in {RenderPass(base, q2, ~unifiedSyncLane)} :
       \* the store value is a new object when the render applied an updater
       LET storeChanged == IF unifiedSyncLane THEN q2 # <<>> ELSE updates # <<>>
           depsChanged == storeChanged \/ week1 # selectedWeek
       IN /\ view' = r.doc
          /\ base' = r.base
          /\ queue' = IF depsChanged THEN r.queue \o EffectUpdates(r.doc, week1, feed)
                      ELSE r.queue
          /\ persisted' = IF storeChanged THEN Some(SavedImage(r.doc))
                          ELSE IF saveDue THEN Some(SavedImage(view))
                          ELSE persisted
          /\ saveDue' = FALSE
          /\ effectDue' = FALSE
          /\ selectedWeek' = week1
          /\ swapMode' = KeptSwapMode(view, selectedWeek, r.doc, week1, mode1)
          /\ selectedGame' = KeptSelection(view, selectedWeek, r.doc, week1, sel1)
          /\ lastOp' = op
          /\ UNCHANGED <<feed, unifiedSyncLane>>

(***************************************************************************)
(* Init: the Matchups component has mounted with an empty localStorage.    *)
(* loadStorage returned the default document, the mount effects have       *)
(* saved it and set selectedWeek to the current week, and the render that  *)
(* followed has its passive effects pending.                               *)
(***************************************************************************)
Init ==
  /\ feed \in Feeds
  /\ view = getDefaultStorage
  /\ base = getDefaultStorage
  /\ queue = <<>>
  /\ persisted = Some(SavedImage(getDefaultStorage))
  /\ saveDue = FALSE
  /\ effectDue = TRUE
  /\ selectedWeek = CurrentWeek(feed)
  /\ swapMode = NULL
  /\ selectedGame = [id \in AllIds |-> NULL]
  /\ lastOp = Op("mount", <<>>)
  /\ unifiedSyncLane \in BOOLEAN

(***************************************************************************)
(* Scheduler steps.                                                        *)
(***************************************************************************)
\* the passive effects of the last commit run: useMatchupsStorage's
\* auto-save, then the initialize-or-sync effect of Matchups
FlushEffects ==
  /\ saveDue \/ effectDue
  /\ persisted' = IF saveDue THEN Some(SavedImage(view)) ELSE persisted
  /\ queue' = IF effectDue THEN queue \o EffectUpdates(view, selectedWeek, feed)
              ELSE queue
  /\ saveDue' = FALSE
  /\ effectDue' = FALSE
  /\ lastOp' = Op("effects", <<>>)
  /\ UNCHANGED <<view, base, feed, selectedWeek, swapMode, selectedGame, unifiedSyncLane>>

\* the render React scheduled for the updaters issued by an effect
Render ==
  /\ queue # <<>>
  /\ ~saveDue /\ ~effectDue
  /\ \E r \in {RenderPass(base, queue, FALSE)} :
        /\ view' = r.doc
        /\ base' = r.base
        /\ queue' = r.queue
        /\ swapMode' = KeptSwapMode(view, selectedWeek, r.doc, selectedWeek, swapMode)
        /\ selectedGame' =
             KeptSelection(view, selectedWeek, r.doc, selectedWeek, selectedGame)
  /\ saveDue' = TRUE
  /\ effectDue' = TRUE
  /\ lastOp' = Op("render", <<>>)
  /\ UNCHANGED <<persisted, feed, selectedWeek, unifiedSyncLane>>

\* App.handleRefresh (or the initial load) hands new props down: a render
\* at default priority with the new feed
Refresh(f) ==
  /\ FeedAge(f) > FeedAge(feed)
  /\ ~saveDue /\ ~effectDue
  /\ feed' = f
  /\ \E r \in {RenderPass(base, queue, FALSE)} :
        /\ view' = r.doc
        /\ base' = r.base
        /\ queue' = r.queue
        /\ swapMode' = KeptSwapMode(view, selectedWeek, r.doc, selectedWeek, swapMode)
        /\ selectedGame' =
             KeptSelection(view, selectedWeek, r.doc, selectedWeek, selectedGame)
  /\ saveDue' = (queue # <<>>)
  /\ effectDue' = TRUE
  /\ lastOp' = Op("refresh", <<>>)
  /\ UNCHANGED <<persisted, selectedWeek, unifiedSyncLane>>

(***************************************************************************)
(* Click handlers.  Guards are what the last commit rendered.              *)
(***************************************************************************)
Shown == CurrentMatchup(view, selectedWeek)
SidePlayers(isMyTeam) == Val(Shown)[PlayersKey(isMyTeam)]

\* MyTeamSelector.onSelect
HandleSetMyTeam(rosterId) ==
  /\ Exists(FeedTeams(feed), LAMBDA t : t.rosterId = rosterId)
  /\ Click(<< Upd("sync", "setMyTeam", [rosterId |-> rosterId]) >>,
           selectedWeek, swapMode, selectedGame, Op("setMyTeam", <<>>))

\* the week dropdown
HandleSelectWeek(week) ==
  /\ ~IsNull(view.config.myTeamRosterId)
  /\ week \in 1..CurrentWeek(feed) /\ week # selectedWeek
  /\ Click(<<>>, week, swapMode, selectedGame, Op("selectWeek", <<>>))

\* the "Refresh this week's data" button
HandleClearWeek ==
  /\ ~IsNull(view.config.myTeamRosterId)
  /\ Click(<< Upd("sync", "clearWeekMatchup", [week |-> selectedWeek]) >>,
           selectedWeek, swapMode, selectedGame, Op("clearWeek", <<>>))

\* PlayerLockRow.handleGameClick on game g of row k (1-based) of a side
HandleGameClick(isMyTeam, k, g) ==
  /\ ~IsNull(Shown)
  /\ k \in 1..Len(SidePlayers(isMyTeam))
  /\ LET p == SidePlayers(isMyTeam)[k]
     IN /\ g \in 1..Len(p.games)
        /\ p.games[g].isPlayed
        /\ IF selectedGame[p.sleeperId] = Some(p.games[g].date)
           THEN Click(<<>>, selectedWeek, swapMode,
                      [selectedGame EXCEPT ![p.sleeperId] = NULL],
                      Op("deselect", <<>>))
           ELSE IF p.games[g].isLocked
           THEN Click(<< Upd("sync", "clearLock",
                             [week |-> selectedWeek, sleeperId |-> p.sleeperId,
                              isMyTeam |-> isMyTeam]) >>,
                      selectedWeek, swapMode, selectedGame,
                      Op("unlock", <<selectedWeek, p.sleeperId, isMyTeam>>))
           ELSE Click(<<>>, selectedWeek, swapMode,
                      [selectedGame EXCEPT ![p.sleeperId] = Some(p.games[g].date)],
                      Op("select", <<>>))

\* selectedGameData of a row
SelectedGameData(p) ==
  IF IsNull(selectedGame[p.sleeperId]) THEN NULL
  ELSE Find(p.games, LAMBDA g : g.date = Val(selectedGame[p.sleeperId]))

ConfirmShownAlsoWhenLocked(p) == ~IsNull(SelectedGameData(p))

\* the lock-action-area renders the confirm and cancel buttons when
\* selectedGameData && !lockedGame
ConfirmShown(p) == ~IsNull(SelectedGameData(p)) /\ IsNull(p.lockedGame)

\* PlayerLockRow.handleConfirmLock
HandleConfirmLock(isMyTeam, k) ==
  /\ ~IsNull(Shown)
  /\ k \in 1..Len(SidePlayers(isMyTeam))
  /\ LET p == SidePlayers(isMyTeam)[k]
         game == SelectedGameData(p)
     IN /\ ConfirmShown(p)
        /\ Click(<< Upd("sync", "recordLock",
                        [week |-> selectedWeek, sleeperId |-> p.sleeperId,
                         isMyTeam |-> isMyTeam,
                         decision |-> [gameDate |-> Val(game).date,
                                       gameFpts |-> Val(game).fpts,
                                       lockedAt |-> "now",
                                       isAutoLocked |-> FALSE]]) >>,
                 selectedWeek, swapMode,
                 [selectedGame EXCEPT ![p.sleeperId] = NULL],
                 Op("lock", <<selectedWeek, p.sleeperId, isMyTeam,
                              Val(game).date, Val(game).fpts>>))

\* PlayerLockRow.handleCancel
HandleCancel(isMyTeam, k) ==
  /\ ~IsNull(Shown)
  /\ k \in 1..Len(SidePlayers(isMyTeam))
  /\ LET p == SidePlayers(isMyTeam)[k]
     IN /\ ConfirmShown(p)
        /\ Click(<<>>, selectedWeek, swapMode,
                 [selectedGame EXCEPT ![p.sleeperId] = NULL],
                 Op("cancel", <<>>))

\* WeeklyMatchupView.handleStartSwap(starterIndex, true): the button is
\* rendered on my starters with canSwap = !playerLock.lockedGame
HandleStartSwap(starterIndex) ==
  /\ ~IsNull(Shown)
  /\ starterIndex >= 0 /\ starterIndex < STARTERS_COUNT
  /\ starterIndex < Len(SidePlayers(TRUE))
  /\ IsNull(SidePlayers(TRUE)[starterIndex + 1].lockedGame)
  /\ Click(<<>>, selectedWeek,
           IF swapMode = Some(starterIndex) THEN NULL ELSE Some(starterIndex),
           selectedGame, Op("startSwap", <<>>))

\* canSwapIntoSlot of bench row benchIndex
canSwapIntoSlot(benchPlayer, mode) ==
  IF ~IsNull(mode) /\ IsNull(benchPlayer.lockedGame)
  THEN canFillSlot(parsePositions(benchPlayer.position), POSITION_SLOTS[Val(mode) + 1])
  ELSE FALSE

\* WeeklyMatchupView.handleCompleteSwap(benchIndex, true): the button is
\* rendered on bench rows with isSwapTarget
HandleCompleteSwap(benchIndex) ==
  /\ ~IsNull(Shown)
  /\ benchIndex >= 0 /\ STARTERS_COUNT + benchIndex < Len(SidePlayers(TRUE))
  /\ canSwapIntoSlot(SidePlayers(TRUE)[STARTERS_COUNT + benchIndex + 1], swapMode)
  /\ Click(<< Upd("sync", "swapPlayers",
                  [week |-> selectedWeek, starterIndex |-> Val(swapMode),
                   benchIndex |-> benchIndex, isMyTeam |-> TRUE]) >>,
           selectedWeek, NULL, selectedGame,
           Op("swap", <<selectedWeek, Val(swapMode), benchIndex,
                        SidePlayers(TRUE)[Val(swapMode) + 1].sleeperId,
                        SidePlayers(TRUE)[STARTERS_COUNT + benchIndex + 1].sleeperId>>))

\* WeeklyMatchupView.handleCancelSwap
HandleCancelSwap ==
  /\ ~IsNull(Shown)
  /\ ~IsNull(swapMode)
  /\ Click(<<>>, selectedWeek, NULL, selectedGame, Op("cancelSwap", <<>>))

\* resetStorage, called from an event handler: setStorage(getDefaultStorage())
\* and localStorage.removeItem(STORAGE_KEY); the auto-save of the render
\* that follows writes the key again
HandleReset ==
  /\ Click(<< Upd("sync", "resetStorage", <<>>) >>,
           selectedWeek, swapMode, selectedGame, Op("reset", <<>>))

\* the inputs the handlers are tried with
MaxRow == 12
MaxGames == 2

Next ==
  \/ FlushEffects
  \/ Render
  \/ \E f \in Feeds : Refresh(f)
  \/ \E r \in {1, 2} : HandleSetMyTeam(r)
  \/ \E w \in {1, 2} : HandleSelectWeek(w)
  \/ HandleClearWeek
  \/ \E b \in BOOLEAN, k \in 1..MaxRow, g \in 1..MaxGames : HandleGameClick(b, k, g)
  \/ \E b \in BOOLEAN, k \in 1..MaxRow : HandleConfirmLock(b, k)
  \/ \E b \in BOOLEAN, k \in 1..MaxRow : HandleCancel(b, k)
  \/ \E i \in {2, 3} : HandleStartSwap(i)
  \/ \E b \in 0..(MaxRow - STARTERS_COUNT - 1) : HandleCompleteSwap(b)
  \/ HandleCancelSwap
  \/ HandleReset

Spec == Init /\ [][Next]_vars

(***************************************************************************)
(* The same component with its scheduler: React runs the passive effects   *)
(* of every commit and the render it scheduled for queued updaters, so     *)
(* neither stays pending forever.  Fairness is stated on the scheduling    *)
(* flags.  Within Next, the steps that take pending effects to done are    *)
(* FlushEffects and the clicks (an event flushes the pending effects       *)
(* before it ends); the steps that render a waiting queue and leave the    *)
(* effects of the new commit pending are Render and Refresh.  The steps    *)
(* are enabled in the states in which FlushEffects and Render are.         *)
(***************************************************************************)
sched == <<saveDue, effectDue>>

FlushEffectsStep ==
  /\ saveDue \/ effectDue
  /\ saveDue' = FALSE
  /\ effectDue' = FALSE

RenderStep ==
  /\ queue # <<>>
  /\ ~saveDue /\ ~effectDue
  /\ saveDue' = TRUE
  /\ effectDue' = TRUE

LiveSpec ==
  Init /\ [][Next]_vars /\ WF_sched(FlushEffectsStep) /\ WF_sched(RenderStep)

(***************************************************************************)
(* Views of a document used below.                                        *)
(***************************************************************************)
Weeks(doc) == {doc.history[i].week : i \in 1..Len(doc.history)}
MatchupOf(doc, week) == Val(getMatchup(doc, week))
Ids(players) == {players[k].sleeperId : k \in 1..Len(players)}
IdOrder(players) == [k \in 1..Len(players) |-> players[k].sleeperId]
PlayerById(players, id) == players[IndexOf(players, id)]
LoadedFeeds == Feeds \ {"none"}

\* the LockDecision handleLock builds for a game
DecisionFor(game) ==
  [gameDate |-> game.date, gameFpts |-> game.fpts, lockedAt |-> "now",
   isAutoLocked |-> FALSE]

(***************************************************************************)
(* The store on its own (useMatchupsStorage as its callers see it).  Each  *)
(* action is one call of a callback the hook returns, applied to the       *)
(* current document and followed by the automatic save; no updater is left *)
(* pending.  The callers build their arguments from the feeds, as Matchups *)
(* does.  updatePlayerGames has no caller; setMyTeam touches the config    *)
(* only and is exercised by the component specification above.            *)
(***************************************************************************)
ApiWeeks == {1, 2}
\* the callers initialize at most MaxHistory records
MaxHistory == 2

\* the record buildWeekMatchup returns for team ann against team bob
BuiltMatchup(week, f) ==
  buildWeekMatchup(week, Teams[1], Teams[2], FeedPlayers(f), FeedSchedule(f),
                   SubSeq(AnnIds, 1, 10), <<"q0", "q1">>)

StoreInit ==
  /\ view = getDefaultStorage
  /\ base = getDefaultStorage
  /\ queue = <<>>
  /\ persisted = Some(SavedImage(getDefaultStorage))
  /\ saveDue = FALSE
  /\ effectDue = FALSE
  /\ feed = "none"
  /\ selectedWeek = 1
  /\ swapMode = NULL
  /\ selectedGame = [id \in AllIds |-> NULL]
  /\ lastOp = Op("mount", <<>>)
  /\ unifiedSyncLane = FALSE

\* setStorage(updater) with nothing pending, and the auto-save of the render
Call(doc1) ==
  /\ view' = doc1
  /\ base' = doc1
  /\ persisted' = Some(SavedImage(doc1))
  /\ UNCHANGED <<queue, saveDue, effectDue, feed, selectedWeek, swapMode,
                 selectedGame, unifiedSyncLane>>

CallInitializeWeek(week, f) ==
  /\ week \in Weeks(view) \/ Len(view.history) < MaxHistory
  /\ Call(initializeWeek(view, BuiltMatchup(week, f)))
  /\ lastOp' = Op("initializeWeek", <<week>>)

\* the write-back of a sync: initializeWeek(synced) when synced differs
CallSyncWriteBack(week, f) ==
  /\ ~IsNull(getMatchup(view, week))
  /\ \E synced \in {syncMatchupWithPlayerData(Val(getMatchup(view, week)),
                                              FeedPlayers(f), FeedSchedule(f))} :
       /\ synced # Val(getMatchup(view, week))
       /\ Call(initializeWeek(view, synced))
  /\ lastOp' = Op("sync", <<week>>)

CallUpdateMatchup(week, updates) ==
  /\ Call(updateMatchup(view, week, updates))
  /\ lastOp' = Op("updateMatchup", <<week, updates>>)

\* recordLock of a played game of a player of my list
CallRecordLock(week, id, g) ==
  /\ ~IsNull(getMatchup(view, week))
  /\ \E players \in {Val(getMatchup(view, week)).myPlayers} :
       /\ id \in Ids(players)
       /\ g \in 1..Len(PlayerById(players, id).games)
       /\ PlayerById(players, id).games[g].isPlayed
       /\ Call(recordLock(view, week, id, TRUE,
                          DecisionFor(PlayerById(players, id).games[g])))
  /\ lastOp' = Op("lock", <<week, id, TRUE>>)

CallClearLock(week, id) ==
  /\ Call(clearLock(view, week, id, TRUE))
  /\ lastOp' = Op("unlock", <<week, id, TRUE>>)

CallSwapPlayers(week, sw) ==
  /\ Call(swapPlayers(view, week, sw[1], sw[2], TRUE))
  /\ lastOp' = Op("swap", <<week, sw[1], sw[2]>>)

CallClearWeekMatchup(week) ==
  /\ Call(clearWeekMatchup(view, week))
  /\ lastOp' = Op("clearWeek", <<week>>)

CallResetStorage ==
  /\ Call(getDefaultStorage)
  /\ lastOp' = Op("reset", <<>>)

StoreNext ==
  \/ \E w \in ApiWeeks, f \in {"d1"} : CallInitializeWeek(w, f)
  \/ \E w \in ApiWeeks, f \in {"d1"} : CallSyncWriteBack(w, f)
  \/ \E w \in ApiWeeks, u \in {[week |-> x] : x \in ApiWeeks} : CallUpdateMatchup(w, u)
  \/ \E w \in ApiWeeks, id \in {"p2"}, g \in 1..MaxGames : CallRecordLock(w, id, g)
  \/ \E w \in ApiWeeks, id \in {"p2"} : CallClearLock(w, id)
  \/ \E w \in ApiWeeks, sw \in {<<2, 1>>} : CallSwapPlayers(w, sw)
  \/ \E w \in ApiWeeks : CallClearWeekMatchup(w)
  \/ CallResetStorage

StoreSpec == StoreInit /\ [][StoreNext]_vars

(***************************************************************************)
(* The lock advisory (lib/analytics).  A game is [week, fpts, minutes];    *)
(* scores and minutes are integers.  Averages, percentages and             *)
(* probabilities are exact fractions [num, den] with den > 0, compared by  *)
(* cross-multiplication.                                                   *)
(***************************************************************************)
Frac(num, den) == [num |-> num, den |-> den]
\* a < b by cross-multiplication, the common factor of the denominators
\* taken out first
RECURSIVE Gcd(_, _)
Gcd(a, b) == IF b = 0 THEN a ELSE Gcd(b, a % b)

FracLess(a, b) ==
  a.num * (b.den \div Gcd(a.den, b.den)) < b.num * (a.den \div Gcd(a.den, b.den))
FracMin(a, b) == IF FracLess(b, a) THEN b ELSE a

RECURSIVE Pow(_, _)
Pow(b, e) == IF e = 0 THEN 1 ELSE b * Pow(b, e - 1)

\* Math.max(...xs) of a non-empty list
MaxOf(xs) == CHOOSE x \in {xs[i] : i \in 1..Len(xs)} : \A i \in 1..Len(xs) : xs[i] <= x

\* getHealthyRecentGames (no minutes override): of the games with
\* g.week >= minWeek && g.week <= currentWeek, currentWeek being the latest
\* week among the player's games, those with
\* minutes >= Math.max(15, avgMinutes - 5), avgMinutes being the average
\* over the recent games of 10 minutes or more, or 20 when there is none
HealthyAmong(recentGames) ==
  Filter(recentGames, LAMBDA g :
    /\ g.minutes >= 15
    /\ Len(Filter(recentGames, LAMBDA h : h.minutes >= 10)) > 0 =>
         (g.minutes + 5) * Len(Filter(recentGames, LAMBDA h : h.minutes >= 10))
           >= Sum(Map(Filter(recentGames, LAMBDA h : h.minutes >= 10),
                      LAMBDA h : h.minutes)))

getHealthyRecentGames(games, weeksBack) ==
  IF Len(games) = 0 THEN <<>>
  ELSE HealthyAmong(
         Filter(games, LAMBDA g :
           /\ g.week >= MaxOf(Map(games, LAMBDA h : h.week)) - weeksBack + 1
           /\ g.week <= MaxOf(Map(games, LAMBDA h : h.week))))

\* getPct: fptsList[Math.min(Math.floor((pct / 100) * n), n - 1)]
GetPct(fptsList, pct) ==
  fptsList[(IF (pct * Len(fptsList)) \div 100 < Len(fptsList) - 1
            THEN (pct * Len(fptsList)) \div 100
            ELSE Len(fptsList) - 1) + 1]

\* median: the middle value of the sorted list, or the mean of the two
\* middle values of a list of even length; 0 for the empty list
median(values) ==
  IF Len(values) = 0 THEN Frac(0, 1)
  ELSE IF Len(values) % 2 # 0
       THEN Frac(SortAscBy(values, LAMBDA x : x)[Len(values) \div 2 + 1], 1)
       ELSE Frac(SortAscBy(values, LAMBDA x : x)[Len(values) \div 2]
                   + SortAscBy(values, LAMBDA x : x)[Len(values) \div 2 + 1], 2)

\* the best recent game, or the best of fptsList.slice(-k),
\* k = Math.max(3, Math.floor(n / 4))
RecentMax(fptsList, recentGames) ==
  IF Len(recentGames) > 0 THEN MaxOf(Map(recentGames, LAMBDA g : g.fpts))
  ELSE MaxOf(SubSeq(fptsList,
                    IF Len(fptsList) \div 4 > 3
                    THEN Len(fptsList) - Len(fptsList) \div 4 + 1
                    ELSE IF 3 >= Len(fptsList) THEN 1 ELSE Len(fptsList) - 2,
                    Len(fptsList)))

BoundsOf(fptsList, recentGames) ==
  [ceiling |-> IF GetPct(fptsList, 85) >= RecentMax(fptsList, recentGames)
               THEN GetPct(fptsList, 85) ELSE RecentMax(fptsList, recentGames),
   floor |-> GetPct(fptsList, 15),
   expected |-> GetPct(fptsList, 50)]

calcRealisticBounds(games, recentGames) ==
  IF Len(games) = 0 THEN [ceiling |-> 0, floor |-> 0, expected |-> 0]
  ELSE BoundsOf(SortAscBy(Map(games, LAMBDA g : g.fpts), LAMBDA x : x), recentGames)

ChanceToImproveAllFail(k, n, gamesRemaining) ==
  IF gamesRemaining > 0 /\ k > 0
  THEN Frac(100 * Pow(n - k, gamesRemaining), Pow(n, gamesRemaining))
  ELSE Frac(0, 1)

\* (1 - Math.pow(1 - k/n, gamesRemaining)) * 100, as a percentage
ChanceToImprove(k, n, gamesRemaining) ==
  IF gamesRemaining > 0 /\ k > 0
  THEN Frac(100 * (Pow(n, gamesRemaining) - Pow(n - k, gamesRemaining)),
            Pow(n, gamesRemaining))
  ELSE Frac(0, 1)

RecommendCeilingFirst(gamesPlayed, gamesRemaining, chanceToImprove, currentVsCeiling) ==
  IF gamesRemaining = 0 THEN [recommendation |-> "LOCK", confidence |-> Frac(100, 1)]
  ELSE IF gamesPlayed = 0 THEN [recommendation |-> "WAIT", confidence |-> Frac(100, 1)]
  ELSE IF FracLess(chanceToImprove, Frac(30, 1))
       THEN [recommendation |-> "LOCK",
             confidence |-> FracMin(Frac(95, 1),
                                    Frac(100 * chanceToImprove.den - chanceToImprove.num,
                                         chanceToImprove.den))]
  ELSE IF ~FracLess(currentVsCeiling, Frac(85, 1))
       THEN [recommendation |-> "LOCK",
             confidence |-> Frac(currentVsCeiling.num - 15 * currentVsCeiling.den,
                                 currentVsCeiling.den)]
  ELSE IF FracLess(Frac(55, 1), chanceToImprove)
       THEN [recommendation |-> "WAIT", confidence |-> FracMin(Frac(95, 1), chanceToImprove)]
  ELSE IF FracLess(currentVsCeiling, Frac(60, 1)) /\ gamesRemaining >= 2
       THEN [recommendation |-> "WAIT", confidence |-> Frac(65, 1)]
  ELSE [recommendation |-> "HOLD", confidence |-> Frac(50, 1)]

\* the recommendation and confidence of analyzeThisWeek
Recommend(gamesPlayed, gamesRemaining, chanceToImprove, currentVsCeiling) ==
  IF gamesRemaining = 0 THEN [recommendation |-> "LOCK", confidence |-> Frac(100, 1)]
  ELSE IF gamesPlayed = 0 THEN [recommendation |-> "WAIT", confidence |-> Frac(100, 1)]
  ELSE IF FracLess(chanceToImprove, Frac(30, 1))
       THEN [recommendation |-> "LOCK",
             confidence |-> FracMin(Frac(95, 1),
                                    Frac(100 * chanceToImprove.den - chanceToImprove.num,
                                         chanceToImprove.den))]
  ELSE IF FracLess(Frac(55, 1), chanceToImprove)
       THEN [recommendation |-> "WAIT", confidence |-> FracMin(Frac(95, 1), chanceToImprove)]
  ELSE IF ~FracLess(currentVsCeiling, Frac(85, 1))
       THEN [recommendation |-> "LOCK",
             confidence |-> Frac(currentVsCeiling.num - 15 * currentVsCeiling.den,
                                 currentVsCeiling.den)]
  ELSE IF FracLess(currentVsCeiling, Frac(60, 1)) /\ gamesRemaining >= 2
       THEN [recommendation |-> "WAIT", confidence |-> Frac(65, 1)]
  ELSE [recommendation |-> "HOLD", confidence |-> Frac(50, 1)]

\* analyzeThisWeek once its samples are drawn; the chance counts
\* games.filter(g => g.fpts > currentBest), and currentVsCeiling is
\* bounds.ceiling > 0 ? (currentBest / bounds.ceiling) * 100 : 0
AnalysisOf(thisWeekGames, healthyGames, ceiling, gamesRemaining, currentBest) ==
  Spread([currentBest |-> currentBest,
          gamesPlayed |-> Len(thisWeekGames),
          gamesRemaining |-> gamesRemaining,
          realisticCeiling |-> ceiling,
          chanceToImprove |->
            ChanceToImprove(Len(Filter(healthyGames, LAMBDA g : g.fpts > currentBest)),
                            Len(healthyGames), gamesRemaining),
          filteredGamesCount |-> Len(healthyGames)],
         Recommend(Len(thisWeekGames), gamesRemaining,
                   ChanceToImprove(Len(Filter(healthyGames, LAMBDA g : g.fpts > currentBest)),
                                   Len(healthyGames), gamesRemaining),
                   IF ceiling > 0 THEN Frac(100 * currentBest, ceiling) ELSE Frac(0, 1)))

\* currentBest is scoreOverride !== undefined ? scoreOverride : actualBest
analyzeThisWeek(games, currentWeek, gamesRemaining, scoreOverride) ==
  AnalysisOf(Filter(games, LAMBDA g : g.week = currentWeek),
             getHealthyRecentGames(games, 6),
             calcRealisticBounds(getHealthyRecentGames(games, 6),
                                 getHealthyRecentGames(games, 2)).ceiling,
             gamesRemaining,
             IF ~IsNull(scoreOverride) THEN Val(scoreOverride)
             ELSE IF Len(Filter(games, LAMBDA g : g.week = currentWeek)) > 0
                  THEN MaxOf(Map(Filter(games, LAMBDA g : g.week = currentWeek),
                                 LAMBDA g : g.fpts))
                  ELSE 0)

(***************************************************************************)
(* The pure functions on their own.  Each action applies one function to   *)
(* arguments drawn from bounded sets and records the call, arguments and   *)
(* result, in lastOp; the store is not involved and stays as mounted.      *)
(***************************************************************************)

\* the record of a call, filed under the function's name
Applied(name, args, result) ==
  [op |-> name, call |-> [f \in {name} |-> [args |-> args, result |-> result]]]

\* the arguments and the result of the call lastOp records
CallArgs == lastOp.call[lastOp.op].args
CallResult == lastOp.call[lastOp.op].result

StoreUntouched ==
  UNCHANGED <<view, base, queue, persisted, saveDue, effectDue, feed,
              selectedWeek, swapMode, selectedGame, unifiedSyncLane>>

\* team-player sets: ann's players of a feed without the players whose
\* analytics record is missing
TeamPlayersWithout(f, missing) ==
  Filter(FeedPlayers(f), LAMBDA p : p.fantasy_team = "ann" /\ p.sleeper_id \notin missing)

ApplyOrderPlayers(f, missing, starterIds) ==
  /\ lastOp' = Applied("orderPlayers",
                        [teamPlayers |-> TeamPlayersWithout(f, missing),
                         starterIds |-> starterIds],
                        orderPlayers(TeamPlayersWithout(f, missing), starterIds, 1,
                                     FeedSchedule(f)))
  /\ StoreUntouched

\* parsed values: every JSON type, falsy and truthy; of the stored objects
\* each of the four fields of a document is absent or present, and a stored
\* history holds the record of one week
StoredValues(week) ==
  {Json("null", NULL), Json("boolean", FALSE), Json("boolean", TRUE),
   Json("number", 0), Json("number", 5), Json("string", ""), Json("string", "x"),
   Json("array", <<>>), Json("array", << Json("number", 5) >>)}
    \cup { Json("object", [k \in {n \in DOMAIN opts : ~IsNull(opts[n])} |-> Val(opts[k])]) :
             opts \in [version : {NULL, Some(0), Some(CURRENT_VERSION),
                                  Some(CURRENT_VERSION + 1)},
                       config : {NULL, Some([myTeamRosterId |-> NULL]),
                                 Some([myTeamRosterId |-> Some(1)])},
                       history : {NULL, Some(<<>>), Some(<< BuiltMatchup(week, "d1") >>)},
                       lastUpdated : {NULL, Some("saved")}] }

\* loadStorage on each item a store of week's record may hold
ApplyLoadStorage(week, getItemThrows) ==
  /\ \E item \in {NULL, Some([kind |-> "empty"]), Some([kind |-> "invalid"])}
                   \cup {Some([kind |-> "json", value |-> v]) : v \in StoredValues(week)} :
       lastOp' = Applied("loadStorage",
                         [item |-> item, getItemThrows |-> getItemThrows],
                         loadStorage(item, getItemThrows))
  /\ StoreUntouched

ApplyMigrateStorage(week) ==
  /\ \E data \in StoredValues(week) :
       lastOp' = Applied("migrateStorage", [data |-> data], migrateStorage(data))
  /\ StoreUntouched

ApplySaveStorage(week, setItemThrows) ==
  /\ \E storageDoc \in {getDefaultStorage, setMyTeam(getDefaultStorage, 1),
                        initializeWeek(getDefaultStorage, BuiltMatchup(week, "d1"))},
        item \in {NULL, Some([kind |-> "invalid"])} :
       lastOp' = Applied("saveStorage",
                         [storage |-> storageDoc, item |-> item,
                          setItemThrows |-> setItemThrows],
                         saveStorage(storageDoc, item, setItemThrows))
  /\ StoreUntouched

\* locked and optimal scores (tenths): on, just inside and just outside the
\* 5% and 15% bounds of 300, equal, and a locked score above the optimal
\* sync's classification
ApplyCalculateLockQuality(lockedFpts, optimalFpts) ==
  /\ lastOp' = Applied("calculateLockQuality",
                        [lockedFpts |-> lockedFpts, optimalFpts |-> optimalFpts],
                        calculateLockQuality(lockedFpts, optimalFpts))
  /\ StoreUntouched

\* the classification of recordLock and updatePlayerGames
ApplyInlineLockQuality(lockedFpts, optimalFpts) ==
  /\ lastOp' = Applied("inlineLockQuality",
                        [lockedFpts |-> lockedFpts, optimalFpts |-> optimalFpts],
                        InlineLockQuality(lockedFpts, optimalFpts))
  /\ StoreUntouched

\* orderPlayers sees the feed's team with some players missing and starter
\* orders of ten ids: the feed's, its reverse, and one that starts p10 in
\* place of p2; the classifications see locked scores on both sides of each
\* band edge of two optimal scores
PureNext ==
  \/ \E f \in LoadedFeeds, missing \in SUBSET {"p0", "p2", "p10", "p11"},
        o \in { SubSeq(AnnIds, 1, 10),
                [i \in 1..10 |-> AnnIds[11 - i]],
                [i \in 1..10 |-> IF AnnIds[i] = "p2" THEN "p10" ELSE AnnIds[i]] } :
       ApplyOrderPlayers(f, missing, o)
  \/ \E w \in ApiWeeks, getItemThrows \in BOOLEAN : ApplyLoadStorage(w, getItemThrows)
  \/ \E w \in ApiWeeks : ApplyMigrateStorage(w)
  \/ \E w \in ApiWeeks, setItemThrows \in BOOLEAN : ApplySaveStorage(w, setItemThrows)
  \/ \E l \in {254, 255, 284, 285, 299, 300, 320}, o \in {300, 320} :
       \/ ApplyCalculateLockQuality(l, o)
       \/ ApplyInlineLockQuality(l, o)

PureSpec == StoreInit /\ [][PureNext]_vars

(***************************************************************************)
(* The advisory on its own.  Init draws a player's games, the current      *)
(* week, the games remaining and the optional score override; the one      *)
(* action applies analyzeThisWeek to them.  The latest played week has at  *)
(* most two games, the week before at most one, and six older games lie    *)
(* in the weeks before; a game of 5 minutes falls below every threshold.   *)
(***************************************************************************)
LatestWeek == 6
MaxRemaining == 3

PlayedGame(week, fpts, minutes) == [week |-> week, fpts |-> fpts, minutes |-> minutes]

\* a player's games: older games (none, or six full-minutes games three to
\* five weeks back, given by their scores, after a high game outside the
\* six-week window), then last week's, then the latest week's
GamesChoices(latest) ==
  { older \o recent \o thisWeek :
      older \in { <<>> } \cup
                { << PlayedGame(latest - 6, 90, 30) >>
                    \o [i \in 1..6 |->
                          PlayedGame(latest - 5 + (i - 1) \div 2, scores[i], 30)] :
                  scores \in { <<20, 20, 20, 20, 20, 60>>,
                               <<40, 40, 40, 40, 40, 40>>,
                               <<0, 0, 0, 0, 0, 40>> } },
      recent \in { <<>> } \cup { << PlayedGame(latest - 1, fpts, 30) >> :
                                   fpts \in {0, 20, 40} },
      thisWeek \in { <<>>,
                     << PlayedGame(latest, 30, 30) >>,
                     << PlayedGame(latest, 30, 5) >>,
                     << PlayedGame(latest, 0, 30) >>,
                     << PlayedGame(latest, 18, 30), PlayedGame(latest, 12, 30) >> } }

AdviceInit ==
  /\ view = getDefaultStorage
  /\ base = getDefaultStorage
  /\ queue = <<>>
  /\ persisted = Some(SavedImage(getDefaultStorage))
  /\ saveDue = FALSE
  /\ effectDue = FALSE
  /\ feed = "none"
  /\ selectedWeek = 1
  /\ swapMode = NULL
  /\ selectedGame = [id \in AllIds |-> NULL]
  /\ unifiedSyncLane = FALSE
  /\ \E games \in GamesChoices(LatestWeek),
        scoreOverride \in {NULL, Some(0), Some(17), Some(30), Some(45)},
        currentWeek \in {LatestWeek, LatestWeek + 1}, gamesRemaining \in 0..MaxRemaining :
       lastOp = Op("asked", [games |-> games,
                             currentWeek |-> currentWeek,
                             gamesRemaining |-> gamesRemaining,
                             scoreOverride |-> scoreOverride])

ApplyAnalyzeThisWeek ==
  /\ lastOp.op = "asked"
  /\ lastOp' = Applied("analyzeThisWeek", lastOp.arg[lastOp.op],
                        analyzeThisWeek(lastOp.arg[lastOp.op].games, lastOp.arg[lastOp.op].currentWeek,
                                        lastOp.arg[lastOp.op].gamesRemaining,
                                        lastOp.arg[lastOp.op].scoreOverride))
  /\ StoreUntouched

\* the call of calcRealisticBounds analyzeThisWeek makes: the healthy games
\* of six weeks, with those of two weeks as the recent games
ApplyCalcRealisticBounds ==
  /\ lastOp.op = "asked"
  /\ lastOp' = Applied("calcRealisticBounds",
                        [games |-> getHealthyRecentGames(lastOp.arg[lastOp.op].games, 6),
                         recentGames |-> getHealthyRecentGames(lastOp.arg[lastOp.op].games, 2)],
                        calcRealisticBounds(getHealthyRecentGames(lastOp.arg[lastOp.op].games, 6),
                                            getHealthyRecentGames(lastOp.arg[lastOp.op].games, 2)))
  /\ StoreUntouched

AdviceSpec ==
  AdviceInit /\ [][ApplyAnalyzeThisWeek \/ ApplyCalcRealisticBounds]_vars

(***************************************************************************)
(* Properties.                                                             *)
(***************************************************************************)

Exchanged ==
  /\ lastOp'.op = "swap"
  /\ lastOp'.arg[lastOp'.op][1] \in Weeks(view) \cap Weeks(view')
  /\ IdOrder(MatchupOf(view', lastOp'.arg[lastOp'.op][1]).myPlayers)
       # IdOrder(MatchupOf(view, lastOp'.arg[lastOp'.op][1]).myPlayers)

\* C2: a swap exchanges two roster entries only if the starter at the
\* chosen index is unlocked at the moment of the exchange.
C2_SwapOnlyUnlockedStarter ==
  [][Exchanged =>
       IsNull(MatchupOf(view, lastOp'.arg[lastOp'.op][1]).myPlayers[lastOp'.arg[lastOp'.op][2] + 1].lockedGame)]_vars

BenchPositionsAtSwap ==
  parsePositions(MatchupOf(view, lastOp'.arg[lastOp'.op][1])
                   .myPlayers[STARTERS_COUNT + lastOp'.arg[lastOp'.op][3] + 1].position)

\* C3 as stated: a swap succeeds only if the bench player's positions
\* intersect the eligible set of the slot at the starter index, and starter
\* index 2 with a bench player whose positions are [PG] is rejected.
C3_SwapEligibleAndIndex2RejectsPG ==
  [][Exchanged =>
       /\ canFillSlot(BenchPositionsAtSwap, POSITION_SLOTS[lastOp'.arg[lastOp'.op][2] + 1])
       /\ ~(lastOp'.arg[lastOp'.op][2] = 2 /\ BenchPositionsAtSwap = <<"PG">>)]_vars

\* C3 amended: a swap succeeds only if the bench player's positions
\* intersect the eligible set of the slot at the starter index; starter
\* index 3 (slot SF) with a bench player whose positions are [PG] is
\* rejected, index 2 is slot G and accepts it.
C3_SwapOnlyEligible ==
  [][Exchanged =>
       /\ canFillSlot(BenchPositionsAtSwap, POSITION_SLOTS[lastOp'.arg[lastOp'.op][2] + 1])
       /\ ~(lastOp'.arg[lastOp'.op][2] = 3 /\ BenchPositionsAtSwap = <<"PG">>)]_vars

\* C3 witness: a swap into slot G (index 2) of a bench player whose
\* positions are [PG] has been committed
C3_Witness ==
  /\ lastOp.op = "swap" /\ lastOp.arg[lastOp.op][2] = 2
  /\ 1 \in Weeks(view)
  /\ parsePositions(MatchupOf(view, 1).myPlayers[3].position) = <<"PG">>

LockOf(doc, week, id, isMyTeam) ==
  PlayerById(MatchupOf(doc, week)[PlayersKey(isMyTeam)], id).lockedGame

HasPlayer(doc, week, id, isMyTeam) ==
  week \in Weeks(doc) /\ id \in Ids(MatchupOf(doc, week)[PlayersKey(isMyTeam)])

\* C5: no update is lost: once a lock, unlock or swap click has been
\* handled, the in-memory document (every queued updater applied) contains
\* its effect, whatever sync write-back was computed from an older snapshot.
C5_NoLostUpdate ==
  LET op == lastOp
      arg == lastOp.arg[lastOp.op]
      doc == storage
  IN /\ (op.op = "lock" /\ HasPlayer(doc, arg[1], arg[2], arg[3]))
        => /\ ~IsNull(LockOf(doc, arg[1], arg[2], arg[3]))
           /\ Val(LockOf(doc, arg[1], arg[2], arg[3])).gameDate = arg[4]
     /\ (op.op = "unlock" /\ HasPlayer(doc, arg[1], arg[2], arg[3]))
        => IsNull(LockOf(doc, arg[1], arg[2], arg[3]))
     /\ (op.op = "swap" /\ arg[1] \in Weeks(doc)
           /\ Len(MatchupOf(doc, arg[1]).myPlayers) > STARTERS_COUNT + arg[3])
        => LET order == IdOrder(MatchupOf(doc, arg[1]).myPlayers)
           IN /\ order[arg[2] + 1] = arg[5]
              /\ order[STARTERS_COUNT + arg[3] + 1] = arg[4]

\* isLocked is true on exactly the entries of the locked date
FlagsFollowLock(p) ==
  (~IsNull(p.lockedGame)
     /\ \E g \in 1..Len(p.games) : p.games[g].date = Val(p.lockedGame).gameDate)
  => \A g \in 1..Len(p.games) :
       p.games[g].isLocked = (p.games[g].date = Val(p.lockedGame).gameDate)

\* C4: sync never loses or alters a lock: for every record of the document,
\* every feed and every player, lockedGame after the sync equals lockedGame
\* before it, and when the locked date is in the rebuilt games exactly the
\* entries of that date are flagged isLocked; updatePlayerGames with the
\* rebuilt games keeps the lock in the same way.
C4_SyncKeepsLocks ==
  \A f \in LoadedFeeds : \A week \in Weeks(view) :
    \A m \in {MatchupOf(view, week)} :
      \A synced \in {syncMatchupWithPlayerData(m, FeedPlayers(f), FeedSchedule(f))} :
        \A b \in BOOLEAN :
          /\ IdOrder(synced[PlayersKey(b)]) = IdOrder(m[PlayersKey(b)])
          /\ \A k \in 1..Len(m[PlayersKey(b)]) :
               \A old \in {m[PlayersKey(b)][k]} : \A new \in {synced[PlayersKey(b)][k]} :
                 \A upd \in {UpdateGamesOf(old, new.games)} :
                   /\ new.lockedGame = old.lockedGame
                   /\ FlagsFollowLock(new)
                   /\ upd.lockedGame = old.lockedGame
                   /\ FlagsFollowLock(upd)

\* C4 witness: p2 was locked on its day-1 game at 30.0, the refresh to feed
\* d2 corrected the score and added a game, and the synced record has been
\* rendered with the lock and the flag on the day-1 entry only
C4_Witness ==
  /\ lastOp.op = "render" /\ feed = "d2"
  /\ 1 \in Weeks(view)
  /\ "p2" \in Ids(MatchupOf(view, 1).myPlayers)
  /\ LET p == PlayerById(MatchupOf(view, 1).myPlayers, "p2")
     IN /\ ~IsNull(p.lockedGame)
        /\ Val(p.lockedGame).gameFpts = 300
        /\ Len(p.games) = 2
        /\ p.games[1].fpts = 320 /\ p.games[1].isLocked /\ ~p.games[2].isLocked

\* C6: sync is idempotent: for every record of the document and every
\* feed, syncing the synced record again with the same feed changes nothing.
C6_SyncIdempotent ==
  \A f \in LoadedFeeds : \A week \in Weeks(view) :
    \A once \in {syncMatchupWithPlayerData(MatchupOf(view, week), FeedPlayers(f),
                                           FeedSchedule(f))} :
      syncMatchupWithPlayerData(once, FeedPlayers(f), FeedSchedule(f)) = once

\* C6 witness: a record with a locked player, an orphaned lock (p10's
\* locked game is no longer in its games) and unlocked players, which the
\* sync with the current feed leaves as it is and the sync with the other
\* feed changes
C6_Witness ==
  /\ feed = "d2" /\ 1 \in Weeks(view)
  /\ LET m == MatchupOf(view, 1)
     IN /\ {"p2", "p10"} \subseteq Ids(m.myPlayers)
        /\ ~IsNull(PlayerById(m.myPlayers, "p2").lockedGame)
        /\ ~IsNull(PlayerById(m.myPlayers, "p10").lockedGame)
        /\ \A g \in 1..Len(PlayerById(m.myPlayers, "p10").games) :
             PlayerById(m.myPlayers, "p10").games[g].date
               # Val(PlayerById(m.myPlayers, "p10").lockedGame).gameDate
        /\ syncMatchupWithPlayerData(m, FeedPlayers("d2"), FeedSchedule("d2")) = m
        /\ syncMatchupWithPlayerData(m, FeedPlayers("d1"), FeedSchedule("d1")) # m

\* C7: for every unlocked player of the document and every played game of
\* that player, recordLock of the game followed by clearLock leaves the
\* player's games (isLocked flags included), lockedGame, optimalGame and
\* lockQuality as they were.
C7_LockThenUnlockRestores ==
  \A week \in Weeks(view) : \A b \in BOOLEAN :
    \A k \in 1..Len(MatchupOf(view, week)[PlayersKey(b)]) :
      \A p \in {MatchupOf(view, week)[PlayersKey(b)][k]} :
        IsNull(p.lockedGame) =>
          \A g \in 1..Len(p.games) :
            p.games[g].isPlayed =>
              \A locked \in {recordLock(view, week, p.sleeperId, b,
                                        DecisionFor(p.games[g]))} :
                \A q \in {MatchupOf(clearLock(locked, week, p.sleeperId, b),
                                    week)[PlayersKey(b)][k]} :
                  /\ ~IsNull(MatchupOf(locked, week)[PlayersKey(b)][k].lockedGame)
                  /\ q.games = p.games
                  /\ q.lockedGame = p.lockedGame
                  /\ q.optimalGame = p.optimalGame
                  /\ q.lockQuality = p.lockQuality

\* C7 witness: p2, with two played games, was locked on the lower one
\* (quality "good") and the unlock click on that game has been handled
C7_Witness ==
  /\ lastOp.op = "unlock" /\ lastOp.arg[lastOp.op][2] = "p2" /\ feed = "d2"
  /\ 1 \in Weeks(view)
  /\ "p2" \in Ids(MatchupOf(view, 1).myPlayers)
  /\ LET p == PlayerById(MatchupOf(view, 1).myPlayers, "p2")
     IN /\ IsNull(p.lockedGame) /\ IsNull(p.lockQuality)
        /\ Len(p.games) = 2 /\ p.games[1].isPlayed /\ p.games[2].isPlayed
        /\ ~p.games[1].isLocked /\ ~p.games[2].isLocked

C9_UnknownPlayerIsNoOp ==
  \A week \in {1, 2} : \A b \in BOOLEAN : \A id \in AllIds \cup {"zz"} :
    (week \notin Weeks(view) \/ id \notin Ids(MatchupOf(view, week)[PlayersKey(b)]))
    => /\ recordLock(view, week, id, b, DecisionFor(Game(1, 300))).history = view.history
       /\ clearLock(view, week, id, b).history = view.history

\* indices probed on each side of the valid ranges
MaxProbe == 2
ProbeIndices == (0 - MaxProbe)..(STARTERS_COUNT + MaxProbe)

\* C10: swapPlayers with starterIndex outside 0..9, with a negative
\* benchIndex, or with 10 + benchIndex at or beyond the length of the
\* side's list returns the document unchanged, on lists of every length.
C10_SwapOutOfRangeIsNoOp ==
  \A week \in Weeks(view) : \A b \in BOOLEAN :
    \A starterIndex \in ProbeIndices : \A benchIndex \in ProbeIndices :
      (\/ starterIndex < 0 \/ starterIndex > 9
       \/ benchIndex < 0
       \/ 10 + benchIndex >= Len(MatchupOf(view, week)[PlayersKey(b)]))
      => swapPlayers(view, week, starterIndex, benchIndex, b) = view

\* C10 witness: the document holds a list of twelve entries, a list of two
\* entries, and a lock, after a swap with valid indices has exchanged two
\* entries of the longer list
C10_Witness ==
  /\ lastOp.op = "swap"
  /\ 1 \in Weeks(view)
  /\ Len(MatchupOf(view, 1).myPlayers) = 12
  /\ Len(MatchupOf(view, 1).opponentPlayers) = 2
  /\ IdOrder(MatchupOf(view, 1).myPlayers) # AnnIds
  /\ MatchupOf(view, 1).myTotalLocked > 0

\* C11: in every state the store reaches from the empty history by
\* initializeWeek (of a new or a present week), sync write-back, lock,
\* unlock, swap, updateMatchup and clearWeekMatchup, no two records of the
\* history have the same week number.
C11_WeeksUnique ==
  \A i \in 1..Len(view.history) : \A j \in 1..Len(view.history) :
    i # j => view.history[i].week # view.history[j].week

\* optimalGame and lockQuality of p are those of its games and its lock
\* (the optimal game is the highest-scoring played game, the earliest of
\* equal ones, null when no played game has a positive score)
Recomputed(p) ==
  /\ LET played == {i \in 1..Len(p.games) : p.games[i].isPlayed /\ p.games[i].fpts > 0}
     IN p.optimalGame =
          OptimalRef(IF played = {} THEN NULL
                     ELSE Some(p.games[CHOOSE i \in played :
                                 \A j \in played :
                                   \/ p.games[j].fpts < p.games[i].fpts
                                   \/ p.games[j].fpts = p.games[i].fpts /\ i <= j]))
  /\ p.lockQuality =
       IF ~IsNull(p.lockedGame) /\ ~IsNull(p.optimalGame)
       THEN Some(calculateLockQuality(Val(p.lockedGame).gameFpts,
                                      Val(p.optimalGame).fpts))
       ELSE NULL

\* C12: in every record of the document every player's optimalGame is the
\* highest-scoring played game of its games and its lockQuality is the band
\* of the locked score against the optimal score (null without lock or
\* without optimal game), and the same holds after updatePlayerGames with
\* the games of any feed: no value is left over from an earlier games list.
C12_OptimalAndQualityRecomputed ==
  \A week \in Weeks(view) : \A m \in {MatchupOf(view, week)} :
    \A f \in LoadedFeeds :
      \A synced \in {syncMatchupWithPlayerData(m, FeedPlayers(f), FeedSchedule(f))} :
        \A b \in BOOLEAN : \A k \in 1..Len(m[PlayersKey(b)]) :
          /\ Recomputed(m[PlayersKey(b)][k])
          /\ Recomputed(synced[PlayersKey(b)][k])
          /\ Recomputed(UpdateGamesOf(m[PlayersKey(b)][k], synced[PlayersKey(b)][k].games))

\* C13: after initialize with a starter order of ten ids, entry i of the
\* list is the player named for slot i, for each of the ten slots, and the
\* remaining entries are all other team players in descending order of
\* expected lock-in; for every team-player set, also one that lacks the
\* analytics record of a supplied starter.
C13_StartersInSuppliedOrder ==
  lastOp.op = "orderPlayers" =>
    \A a \in {CallArgs} : \A list \in {IdOrder(CallResult)} :
      /\ Len(list) >= 10
      /\ \A i \in 1..10 : list[i] = a.starterIds[i]
      /\ {list[k] : k \in 11..Len(list)}
           = {a.teamPlayers[k].sleeper_id : k \in 1..Len(a.teamPlayers)}
               \ {a.starterIds[i] : i \in 1..10}
      /\ \A j \in 11..Len(list) : \A k \in j..Len(list) :
           ExpectedLockinOf(list[j]) >= ExpectedLockinOf(list[k])

\* C14: when sync rebuilds the games of a locked player and the locked
\* date is not in the rebuilt list, the synced player keeps lockedGame as it
\* was, none of its game entries is flagged isLocked, and its games are
\* exactly the rebuilt ones: no entry stands in for the missing game.
C14_VanishedLockKeptWithoutStandIn ==
  \A week \in Weeks(view) : \A m \in {MatchupOf(view, week)} :
    \A f \in LoadedFeeds :
      \A synced \in {syncMatchupWithPlayerData(m, FeedPlayers(f), FeedSchedule(f))} :
        \A b \in BOOLEAN : \A k \in 1..Len(m[PlayersKey(b)]) :
          \A old \in {m[PlayersKey(b)][k]} : \A new \in {synced[PlayersKey(b)][k]} :
            \A data \in {Find(FeedPlayers(f), LAMBDA p :
                           /\ p.sleeper_id = old.sleeperId
                           /\ p.fantasy_team = (IF b THEN m.myTeamName
                                                ELSE m.opponentTeamName))} :
              (~IsNull(old.lockedGame) /\ ~IsNull(data)) =>
                \A rebuilt \in {buildPlayerWeekLockIn(Val(data), m.week,
                                                      FeedSchedule(f)).games} :
                  (\A g \in 1..Len(rebuilt) :
                     rebuilt[g].date # Val(old.lockedGame).gameDate)
                  => /\ new.lockedGame = old.lockedGame
                     /\ \A g \in 1..Len(new.games) : ~new.games[g].isLocked
                     /\ new.games = rebuilt

\* C14 witness: p10 was locked on its day-2 game, the refresh to feed d2
\* withdrew that game, and the synced record has been rendered: the lock is
\* kept, the only entry is the scheduled day-4 game, unflagged
C14_Witness ==
  /\ lastOp.op = "render" /\ feed = "d2"
  /\ 1 \in Weeks(view)
  /\ \E b \in BOOLEAN :
       /\ "p10" \in Ids(MatchupOf(view, 1)[PlayersKey(b)])
       /\ \E p \in {PlayerById(MatchupOf(view, 1)[PlayersKey(b)], "p10")} :
            /\ ~IsNull(p.lockedGame)
            /\ Val(p.lockedGame).gameDate = 2
            /\ Len(p.games) = 1
            /\ p.games[1].date = 4 /\ ~p.games[1].isPlayed /\ ~p.games[1].isLocked

\* the number of records of the history labelled with the week
RecordsOf(doc, week) ==
  Cardinality({i \in 1..Len(doc.history) : doc.history[i].week = week})

\* C15: a record of a week stays in the history, under the same week
\* number, across every lock, unlock, swap, sync and (re-)initialize; a
\* record leaves the history only by a reset of the storage or a clear of
\* its week, and a clear of one week leaves the records of every other
\* week as they were.
C15_RecordKeptUntilResetOrClear ==
  [][/\ Len(view'.history) < Len(view.history) => lastOp'.op \in {"reset", "clearWeek"}
     /\ lastOp'.op = "clearWeek" =>
          view'.history = Filter(view.history, LAMBDA m : m.week # lastOp'.arg[lastOp'.op][1])
     /\ lastOp'.op \in {"lock", "unlock", "swap", "sync", "initializeWeek"} =>
          \A w \in ApiWeeks : RecordsOf(view', w) >= RecordsOf(view, w)]_vars

\* C15 witness: two weeks were initialized, a player of week 1 was locked,
\* and the clear of week 2 has left the record of week 1 with its lock
C15_Witness ==
  /\ lastOp.op = "clearWeek" /\ lastOp.arg[lastOp.op][1] = 2
  /\ Weeks(view) = {1}
  /\ Len(view.history) = 1
  /\ MatchupOf(view, 1).myTotalLocked > 0

\* C16: loadStorage returns (never throws) a document for every stored
\* item, the default empty document (current version, null team id, empty
\* history) when the read fails or the item is absent, not JSON or not a
\* JSON object; saveStorage returns even when the write fails, and then
\* leaves the stored item as it was.
C16_LoadReturnsDocument ==
  /\ lastOp.op = "loadStorage" =>
       /\ CallResult.kind = "returned"
       /\ Prop(CallResult.value, "version") = Some(CURRENT_VERSION)
       /\ "config" \in DOMAIN CallResult.value
       /\ "history" \in DOMAIN CallResult.value
       /\ (\/ CallArgs.getItemThrows
           \/ IsNull(CallArgs.item)
           \/ Val(CallArgs.item).kind # "json"
           \/ Val(CallArgs.item).value.type # "object")
          => /\ CallResult.value.config.myTeamRosterId = NULL
             /\ CallResult.value.history = <<>>
  /\ lastOp.op = "saveStorage" =>
       /\ CallResult.kind = "returned"
       /\ CallArgs.setItemThrows => CallResult.value = CallArgs.item
       /\ view = getDefaultStorage

\* C17: migrateStorage returns an object whose version is current as it
\* is, and migrating its own result again changes neither version, config
\* nor history.
C17_MigrationIdempotent ==
  lastOp.op = "migrateStorage" =>
    /\ (/\ CallArgs.data.type = "object"
        /\ Prop(CallArgs.data.value, "version") = Some(CURRENT_VERSION))
       => CallResult = CallArgs.data.value
    /\ \A k \in {"version", "config", "history"} :
         Prop(migrateStorage(Json("object", CallResult)), k) = Prop(CallResult, k)

\* an object of another version with a team and a week's record was
\* migrated: stamped current, team and record kept
C17_Witness ==
  /\ lastOp.op = "migrateStorage"
  /\ CallArgs.data.type = "object"
  /\ Prop(CallArgs.data.value, "version") = Some(CURRENT_VERSION + 1)
  /\ Prop(CallArgs.data.value, "config") = Some([myTeamRosterId |-> Some(1)])
  /\ CallResult.version = CURRENT_VERSION
  /\ CallResult.config.myTeamRosterId = Some(1)
  /\ Len(CallResult.history) = 1

\* C18: each classification is the band function of (locked, optimal) --
\* optimal exactly when the scores match, good within 5% below the optimal
\* score, suboptimal within 15%, poor otherwise -- and calculateLockQuality
\* and the inline classification agree on every pair, a locked score above
\* the optimal score included.
C18_OneBandFunction ==
  lastOp.op \in {"calculateLockQuality", "inlineLockQuality"} =>
    /\ CallResult = "optimal" <=> CallArgs.lockedFpts = CallArgs.optimalFpts
    /\ CallArgs.lockedFpts < CallArgs.optimalFpts =>
         /\ CallResult = "good" <=>
              (CallArgs.optimalFpts - CallArgs.lockedFpts) * 100 <= 5 * CallArgs.optimalFpts
         /\ CallResult = "poor" <=>
              (CallArgs.optimalFpts - CallArgs.lockedFpts) * 100 > 15 * CallArgs.optimalFpts
    /\ calculateLockQuality(CallArgs.lockedFpts, CallArgs.optimalFpts)
         = InlineLockQuality(CallArgs.lockedFpts, CallArgs.optimalFpts)

\* C19: the verdict is the first matching rule of the table: no game
\* remaining gives LOCK with confidence 100; else no game played gives WAIT
\* with confidence 100; else cumulative improvement below 30% gives LOCK;
\* else above 55% gives WAIT; else a current score of at least 85% of the
\* ceiling gives LOCK; else a current score below 60% of the ceiling with two
\* or more games remaining gives WAIT; else HOLD with confidence 50.
C19_VerdictByOrderedTable ==
  lastOp.op = "analyzeThisWeek" =>
    IF CallResult.gamesRemaining = 0
    THEN CallResult.recommendation = "LOCK" /\ CallResult.confidence = Frac(100, 1)
    ELSE IF Len(Filter(CallArgs.games, LAMBDA g : g.week = CallArgs.currentWeek)) = 0
    THEN CallResult.recommendation = "WAIT" /\ CallResult.confidence = Frac(100, 1)
    ELSE IF FracLess(CallResult.chanceToImprove, Frac(30, 1))
    THEN CallResult.recommendation = "LOCK"
    ELSE IF FracLess(Frac(55, 1), CallResult.chanceToImprove)
    THEN CallResult.recommendation = "WAIT"
    ELSE IF 100 * CallResult.currentBest >= 85 * CallResult.realisticCeiling
    THEN CallResult.recommendation = "LOCK"
    ELSE IF /\ 100 * CallResult.currentBest < 60 * CallResult.realisticCeiling
            /\ CallResult.gamesRemaining >= 2
    THEN CallResult.recommendation = "WAIT"
    ELSE CallResult.recommendation = "HOLD" /\ CallResult.confidence = Frac(50, 1)

\* C19 (amended): the same ordered table, in which a ceiling that is not
\* positive counts as a current score at 0% of the ceiling: the 85% rule
\* needs a positive ceiling, and the 60% rule also matches when the ceiling
\* is not positive.
C19_VerdictByGuardedTable ==
  lastOp.op = "analyzeThisWeek" =>
    IF CallResult.gamesRemaining = 0
    THEN CallResult.recommendation = "LOCK" /\ CallResult.confidence = Frac(100, 1)
    ELSE IF Len(Filter(CallArgs.games, LAMBDA g : g.week = CallArgs.currentWeek)) = 0
    THEN CallResult.recommendation = "WAIT" /\ CallResult.confidence = Frac(100, 1)
    ELSE IF FracLess(CallResult.chanceToImprove, Frac(30, 1))
    THEN CallResult.recommendation = "LOCK"
    ELSE IF FracLess(Frac(55, 1), CallResult.chanceToImprove)
    THEN CallResult.recommendation = "WAIT"
    ELSE IF /\ CallResult.realisticCeiling > 0
            /\ 100 * CallResult.currentBest >= 85 * CallResult.realisticCeiling
    THEN CallResult.recommendation = "LOCK"
    ELSE IF /\ \/ CallResult.realisticCeiling <= 0
               \/ 100 * CallResult.currentBest < 60 * CallResult.realisticCeiling
            /\ CallResult.gamesRemaining >= 2
    THEN CallResult.recommendation = "WAIT"
    ELSE CallResult.recommendation = "HOLD" /\ CallResult.confidence = Frac(50, 1)

\* a played week with games remaining, improvement between 30% and 55%, a
\* current score of 0 and a ceiling of 0: the verdict is WAIT
C19_Witness ==
  /\ lastOp.op = "analyzeThisWeek"
  /\ CallResult.gamesPlayed > 0
  /\ CallResult.gamesRemaining >= 2
  /\ ~FracLess(CallResult.chanceToImprove, Frac(30, 1))
  /\ ~FracLess(Frac(55, 1), CallResult.chanceToImprove)
  /\ CallResult.currentBest = 0
  /\ CallResult.realisticCeiling = 0
  /\ CallResult.recommendation = "WAIT"

\* C20: the confidence analyzeThisWeek returns lies in [0, 100].
C20_ConfidenceInRange ==
  lastOp.op = "analyzeThisWeek" =>
    /\ ~FracLess(CallResult.confidence, Frac(0, 1))
    /\ ~FracLess(Frac(100, 1), CallResult.confidence)

\* C21: for the single-game probability of a fixed sample and current
\* score, the cumulative improvement probability of analyzeThisWeek is 0
\* when no game remains, lies within 0 and 100 percent, and does not
\* decrease when one more game remains.
C21_ChanceMonotoneInGames ==
  lastOp.op = "analyzeThisWeek" =>
    /\ CallArgs.gamesRemaining = 0 =>
         CallResult.chanceToImprove.num = 0
    /\ ~FracLess(CallResult.chanceToImprove, Frac(0, 1))
    /\ ~FracLess(Frac(100, 1), CallResult.chanceToImprove)
    /\ ~FracLess(analyzeThisWeek(CallArgs.games, CallArgs.currentWeek,
                                 CallArgs.gamesRemaining + 1,
                                 CallArgs.scoreOverride).chanceToImprove,
                 CallResult.chanceToImprove)

\* with games remaining, a chance strictly between 0 and 100 that one more
\* game strictly raises
C21_Witness ==
  /\ lastOp.op = "analyzeThisWeek"
  /\ CallArgs.gamesRemaining >= 2
  /\ FracLess(Frac(0, 1), CallResult.chanceToImprove)
  /\ FracLess(CallResult.chanceToImprove,
              analyzeThisWeek(CallArgs.games, CallArgs.currentWeek,
                              CallArgs.gamesRemaining + 1,
                              CallArgs.scoreOverride).chanceToImprove)

\* C22: for every non-empty healthy sample calcRealisticBounds returns as
\* floor the 15th percentile of the sample, as expected the median of the
\* sample as the median operator computes it, and as ceiling the greater of
\* the 85th percentile and the best score of the last-two-weeks games.
C22_BoundsArePercentilesAndMedian ==
  (lastOp.op = "calcRealisticBounds" /\ Len(CallArgs.games) > 0) =>
    LET fptsList == SortAscBy(Map(CallArgs.games, LAMBDA g : g.fpts), LAMBDA x : x)
        recent == Map(CallArgs.recentGames, LAMBDA g : g.fpts)
    IN /\ CallResult.floor = GetPct(fptsList, 15)
       /\ CallResult.expected * median(fptsList).den = median(fptsList).num
       /\ Len(recent) > 0 =>
            /\ CallResult.ceiling >= GetPct(fptsList, 85)
            /\ CallResult.ceiling >= MaxOf(recent)
            /\ CallResult.ceiling \in {GetPct(fptsList, 85), MaxOf(recent)}

\* C23: a swap with a starter index in 0..9 and a bench index inside the
\* list changes only the two addressed positions of that side's list: the
\* entries at starterIndex and 10 + benchIndex are exchanged whole, every
\* other entry, the other side's list, the totals and all other fields of
\* the record, and every other week's record are unchanged, and the list
\* keeps its length and its set of ids.
C23_SwapExchangesTwoEntriesOnly ==
  \A week \in Weeks(view) : \A b \in BOOLEAN :
    \A old \in {MatchupOf(view, week)[PlayersKey(b)]} :
      \A starterIndex \in 0..(STARTERS_COUNT - 1) :
        \A benchIndex \in 0..(Len(old) - STARTERS_COUNT - 1) :
          \A after \in {swapPlayers(view, week, starterIndex, benchIndex, b)} :
            \A new \in {MatchupOf(after, week)[PlayersKey(b)]} :
              /\ new[starterIndex + 1] = old[STARTERS_COUNT + benchIndex + 1]
              /\ new[STARTERS_COUNT + benchIndex + 1] = old[starterIndex + 1]
              /\ Len(new) = Len(old)
              /\ \A k \in 1..Len(old) :
                   k \notin {starterIndex + 1, STARTERS_COUNT + benchIndex + 1}
                     => new[k] = old[k]
              /\ Ids(new) = Ids(old)
              /\ [MatchupOf(after, week) EXCEPT ![PlayersKey(b)] = old]
                   = MatchupOf(view, week)
              /\ Len(after.history) = Len(view.history)
              /\ \A i \in 1..Len(view.history) :
                   view.history[i].week # week => after.history[i] = view.history[i]
              /\ [after EXCEPT !.history = view.history] = view

\* C23 witness: a swap click was committed in which a locked starter went to
\* the bench with its lock and a bench player with games took its place
C23_Witness ==
  /\ lastOp.op = "swap"
  /\ queue = <<>>
  /\ selectedWeek \in Weeks(view)
  /\ MatchupOf(view, selectedWeek).myPlayers[lastOp.arg[lastOp.op][2] + 1].sleeperId = lastOp.arg[lastOp.op][5]
  /\ MatchupOf(view, selectedWeek).myPlayers[STARTERS_COUNT + lastOp.arg[lastOp.op][3] + 1].sleeperId
       = lastOp.arg[lastOp.op][4]
  /\ ~IsNull(MatchupOf(view, selectedWeek)
               .myPlayers[STARTERS_COUNT + lastOp.arg[lastOp.op][3] + 1].lockedGame)
  /\ Len(MatchupOf(view, selectedWeek).myPlayers[lastOp.arg[lastOp.op][2] + 1].games) > 0
  /\ MatchupOf(view, selectedWeek).myTotalLocked > 0

\* C24: in every record of the committed document each side's stored
\* locked total (myTotalLocked, opponentTotalLocked) is the sum of the
\* lockedGame scores over that side's current player list.
C24_LockedTotalsAreSums ==
  \A week \in Weeks(view) : \A b \in BOOLEAN :
    \A players \in {MatchupOf(view, week)[PlayersKey(b)]} :
      MatchupOf(view, week)[IF b THEN "myTotalLocked" ELSE "opponentTotalLocked"]
        = Sum([k \in 1..Len(players) |->
                 IF IsNull(players[k].lockedGame) THEN 0
                 ELSE Val(players[k].lockedGame).gameFpts])

\* C24 witness: a lock was recorded while a locked player sits on the
\* bench, and the stored total is positive
C24_Witness ==
  /\ lastOp.op = "lock"
  /\ 1 \in Weeks(view)
  /\ \E k \in (STARTERS_COUNT + 1)..Len(MatchupOf(view, 1).myPlayers) :
       ~IsNull(MatchupOf(view, 1).myPlayers[k].lockedGame)
  /\ MatchupOf(view, 1).myTotalLocked > 0

\* C25: in every record of the committed document each side's stored
\* optimal total (myOptimalTotal, opponentOptimalTotal) is the sum of the
\* optimalGame scores over the starters only, the first ten entries of that
\* side's list.
C25_OptimalTotalsAreStarterSums ==
  \A week \in Weeks(view) : \A b \in BOOLEAN :
    \A players \in {MatchupOf(view, week)[PlayersKey(b)]} :
      MatchupOf(view, week)[IF b THEN "myOptimalTotal" ELSE "opponentOptimalTotal"]
        = Sum([k \in 1..(IF Len(players) < STARTERS_COUNT THEN Len(players)
                         ELSE STARTERS_COUNT) |->
                 IF IsNull(players[k].optimalGame) THEN 0
                 ELSE Val(players[k].optimalGame).fpts])

\* C26: no lock is recorded for a game that has not been played: in every
\* step in which a player's lockedGame comes to hold a date d, the player's
\* games list holds an entry of date d with isPlayed true; and canLockGame
\* answers canLock false for every game not played and true for every
\* played game.
C26_LockOnlyPlayedGame ==
  [][/\ \A week \in Weeks(view) \cap Weeks(view') : \A b \in BOOLEAN :
          \A id \in Ids(MatchupOf(view, week)[PlayersKey(b)])
                      \cap Ids(MatchupOf(view', week)[PlayersKey(b)]) :
            \A old \in {PlayerById(MatchupOf(view, week)[PlayersKey(b)], id)} :
              \A new \in {PlayerById(MatchupOf(view', week)[PlayersKey(b)], id)} :
                (~IsNull(new.lockedGame) /\ new.lockedGame # old.lockedGame)
                  => \E g \in 1..Len(new.games) :
                       /\ new.games[g].date = Val(new.lockedGame).gameDate
                       /\ new.games[g].isPlayed
     /\ \A week \in Weeks(view') : \A b \in BOOLEAN :
          \A k \in 1..Len(MatchupOf(view', week)[PlayersKey(b)]) :
            \A games \in {MatchupOf(view', week)[PlayersKey(b)][k].games} :
              \A g \in 1..Len(games) :
                canLockGame(games[g], games).canLock = games[g].isPlayed]_vars

\* the effect has nothing pending and would write nothing if it ran again
Quiesced ==
  /\ queue = <<>> /\ ~effectDue
  /\ EffectUpdates(view, selectedWeek, feed) = <<>>

\* C27: the initialize-or-sync effect quiesces: with the player data, the
\* schedule and the starters fixed, the loop of effect and scheduled render
\* does not run forever: time and again the component either is in a state
\* in which the effect makes no further write, or the user or a refresh has
\* just acted; and whenever nothing is pending the effect would write
\* nothing.  This holds from every reachable history and again after every
\* lock, unlock or swap.
C27_EffectQuiesces ==
  /\ []((queue = <<>> /\ ~effectDue)
          => EffectUpdates(view, selectedWeek, feed) = <<>>)
  /\ []<>(Quiesced \/ lastOp.op \notin {"effects", "render"})

\* C27 witness: the effect has written back a synced record after a lock
\* and has come to rest with the lock in the record
C27_Witness ==
  /\ Quiesced /\ ~saveDue
  /\ lastOp.op = "effects"
  /\ 1 \in Weeks(view)
  /\ MatchupOf(view, 1).myTotalLocked > 0
  /\ feed = "d2"

\* C28: in every reachable state, every player has at most one game entry
\* with isLocked true; an entry with isLocked true has the date of the
\* player's lockedGame; and a player without a lockedGame has no entry with
\* isLocked true and has no lockQuality.
C28_AtMostOneFlagMatchingLock ==
  \A i \in 1..Len(view.history) : \A b \in BOOLEAN :
    \A k \in 1..Len(view.history[i][PlayersKey(b)]) :
      \A p \in {view.history[i][PlayersKey(b)][k]} :
        \A flagged \in {{g \in 1..Len(p.games) : p.games[g].isLocked}} :
          /\ Cardinality(flagged) <= 1
          /\ \A g \in flagged :
               /\ ~IsNull(p.lockedGame)
               /\ p.games[g].date = Val(p.lockedGame).gameDate
          /\ IsNull(p.lockedGame) => (flagged = {} /\ IsNull(p.lockQuality))

\* C28 witness: a lock has just been recorded for a starter with two played
\* games, one of them flagged, while a bench player has no lock
C28_Witness ==
  /\ lastOp.op = "lock"
  /\ 1 \in Weeks(view)
  /\ {"p2", "p10"} \subseteq Ids(MatchupOf(view, 1).myPlayers)
  /\ \E p \in {PlayerById(MatchupOf(view, 1).myPlayers, "p2")} :
        /\ ~IsNull(p.lockedGame)
        /\ Len(p.games) = 2 /\ p.games[1].isPlayed /\ p.games[2].isPlayed
        /\ Cardinality({g \in 1..2 : p.games[g].isLocked}) = 1
  /\ IsNull(PlayerById(MatchupOf(view, 1).myPlayers, "p10").lockedGame)

\* C29: in every reachable state, for every locked player whose games list
\* has an entry flagged isLocked, the score of lockedGame equals the fpts of
\* the flagged entry, also after a sync in which fresh data changed the
\* score of the game on the locked date.
C29_LockedScoreMatchesFlaggedGame ==
  \A i \in 1..Len(view.history) : \A b \in BOOLEAN :
    \A k \in 1..Len(view.history[i][PlayersKey(b)]) :
      \A p \in {view.history[i][PlayersKey(b)][k]} :
        ~IsNull(p.lockedGame)
          => \A g \in 1..Len(p.games) :
               p.games[g].isLocked => Val(p.lockedGame).gameFpts = p.games[g].fpts

\* C30: every document loadStorage returns for a stored JSON object,
\* whatever version tag and fields the object carries, is well-formed: its
\* version is the current version, it has a config with the team id field
\* (myTeamRosterId) and it has a history, which is a list.
C30_LoadedDocumentWellFormed ==
  (/\ lastOp.op = "loadStorage"
   /\ ~CallArgs.getItemThrows
   /\ ~IsNull(CallArgs.item)
   /\ Val(CallArgs.item).kind = "json"
   /\ Val(CallArgs.item).value.type = "object")
    => /\ CallResult.kind = "returned"
       /\ Prop(CallResult.value, "version") = Some(CURRENT_VERSION)
       /\ "config" \in DOMAIN CallResult.value
       /\ "myTeamRosterId" \in DOMAIN CallResult.value.config
       /\ "history" \in DOMAIN CallResult.value
       /\ DOMAIN CallResult.value.history = 1..Len(CallResult.value.history)

====
